---- MODULE Spec2Model ----
(***************************************************************************)
(* The segment-relevance scoring of the YouTube analyzer in its three      *)
(* revisions: main-app.py (v1), main-app-v2.py (v2), main_app-v3.py (v3).  *)
(*                                                                         *)
(* A Python str is a tuple of one-character strings, so that split, lower, *)
(* substring search, int() and the regular-expression scan are computed    *)
(* character by character as the interpreter computes them.  A Python      *)
(* float is the triple <<i, a, b>> of its exact decimal expansion cut      *)
(* after 18 places: the value is i + a/10^9 + b/10^18.  The cut is         *)
(* injective and monotone on the doubles that occur here, so = and < on    *)
(* triples are = and < on the doubles.                                     *)
(***************************************************************************)
EXTENDS Integers, Sequences, FiniteSets, TLC

VARIABLES
    description,      \* video_data['description']
    duration,         \* video_data['duration']['seconds']
    query_keywords,   \* the query_keywords argument, a list of str
    transcript,       \* what YouTubeTranscriptApi.get_transcript answers for the video
    comments,         \* what commentThreads().list(...).execute() answers for the video
    heatmap,          \* what the watch page holds after 'heatmap='
    called,           \* the method that has run, "none" before the call
    use_captions,     \* the use_captions argument of the call (main-app-v2.py)
    hooks,            \* the list returned by the method that has run
    buckets,          \* the dict returned by _analyze_segments of main_app-v3.py
    raised,           \* TRUE iff the call ended in an exception
    revision,         \* the file whose analyze_videos runs, "none" when none does
    query,            \* the query argument of analyze_videos
    search_response,  \* what search().list(...).execute() answers
    videos_response,  \* what videos().list(...).execute() answers
    pc,               \* where analyze_videos stands
    position,         \* the index in videos_response['items'] of the video the loop is at
    analyzed_videos,  \* the local list analyzed_videos
    result            \* the list analyze_videos returned

inputs == <<description, duration, query_keywords, transcript, comments, heatmap>>
batch == <<revision, query, search_response, videos_response, pc, position,
           analyzed_videos, result>>
vars == <<inputs, called, use_captions, hooks, buckets, raised, batch>>

(***************************************************************************)
(* str                                                                     *)
(***************************************************************************)
DIGITS == <<"0","1","2","3","4","5","6","7","8","9">>
UPPER == <<"A","B","C","D","E","F","G","H","I","J","K","L","M",
           "N","O","P","Q","R","S","T","U","V","W","X","Y","Z">>
LOWER == <<"a","b","c","d","e","f","g","h","i","j","k","l","m",
           "n","o","p","q","r","s","t","u","v","w","x","y","z">>
WHITESPACE == {" ", "\t", "\n"}

\* char.isdigit()
isdigit(c) == \E i \in 1..10 : DIGITS[i] = c

DigitVal(c) == (CHOOSE i \in 1..10 : DIGITS[i] = c) - 1

lower_char(c) ==
    IF \E i \in 1..26 : UPPER[i] = c
    THEN LOWER[CHOOSE i \in 1..26 : UPPER[i] = c]
    ELSE c

\* s.lower()
RECURSIVE lower(_)
lower(s) == IF s = <<>> THEN <<>> ELSE <<lower_char(s[1])>> \o lower(Tail(s))

\* c in s, for a one-character c
has_char(s, c) == \E i \in 1..Len(s) : s[i] = c

\* any(char.isdigit() for char in s)
any_digit(s) == \E i \in 1..Len(s) : isdigit(s[i])

\* s.find(c, i - 1) + 1: the first position >= i of c in s, or 0
RECURSIVE find_from(_, _, _)
find_from(s, c, i) ==
    IF i > Len(s) THEN 0 ELSE IF s[i] = c THEN i ELSE find_from(s, c, i + 1)

\* the first position of c in s, c occurring in s
first_index(s, c) == find_from(s, c, 1)

\* t in s
is_substring(t, s) ==
    \E i \in 0..(Len(s) - Len(t)) : SubSeq(s, i + 1, i + Len(t)) = t

\* s.split(sep) for a one-character sep
RECURSIVE split_sep(_, _)
split_sep(s, sep) ==
    IF ~has_char(s, sep)
    THEN <<s>>
    ELSE LET i == first_index(s, sep)
         IN  <<SubSeq(s, 1, i - 1)>> \o split_sep(SubSeq(s, i + 1, Len(s)), sep)

\* s.split(sep, 1)
split_once(s, sep) ==
    IF ~has_char(s, sep)
    THEN <<s>>
    ELSE LET i == first_index(s, sep)
         IN  <<SubSeq(s, 1, i - 1), SubSeq(s, i + 1, Len(s))>>

RECURSIVE lstrip(_)
lstrip(s) == IF s # <<>> /\ s[1] \in WHITESPACE THEN lstrip(Tail(s)) ELSE s

RECURSIVE rstrip(_)
rstrip(s) ==
    IF s # <<>> /\ s[Len(s)] \in WHITESPACE
    THEN rstrip(SubSeq(s, 1, Len(s) - 1))
    ELSE s

\* s.strip()
strip(s) == rstrip(lstrip(s))

\* the length of the first word of s, s not starting with whitespace
RECURSIVE word_len(_)
word_len(s) ==
    IF s = <<>> \/ s[1] \in WHITESPACE THEN 0 ELSE 1 + word_len(Tail(s))

\* s.split(): the maximal runs of non-whitespace characters
RECURSIVE split_ws(_)
split_ws(s) ==
    LET t == lstrip(s)
        n == word_len(t)
    IN  IF t = <<>>
        THEN <<>>
        ELSE <<SubSeq(t, 1, n)>> \o split_ws(SubSeq(t, n + 1, Len(t)))

\* sep.join(parts) for a one-character sep
RECURSIVE join(_, _)
join(parts, sep) ==
    IF parts = <<>> THEN <<>>
    ELSE IF Len(parts) = 1 THEN parts[1]
    ELSE parts[1] \o <<sep>> \o join(Tail(parts), sep)

\* the elements of a list, as a set
Elements(list) == {list[i] : i \in 1..Len(list)}

Min(a, b) == IF a <= b THEN a ELSE b
Max(a, b) == IF a >= b THEN a ELSE b

(***************************************************************************)
(* int(str): surrounding whitespace is stripped, one sign is allowed, then *)
(* decimal digits, single underscores allowed between digits.  Anything    *)
(* else raises ValueError, modelled as [ok |-> FALSE].                     *)
(***************************************************************************)
ValueError == [ok |-> FALSE, val |-> 0]

RECURSIVE digits_value(_)
digits_value(ds) ==
    IF ds = <<>> THEN 0
    ELSE digits_value(SubSeq(ds, 1, Len(ds) - 1)) * 10 + DigitVal(ds[Len(ds)])

\* the digits after the sign: at least one digit, digits and single underscores
\* between digits only
wellformed(body) ==
    /\ body # <<>>
    /\ isdigit(body[1])
    /\ isdigit(body[Len(body)])
    /\ \A i \in 1..Len(body) : isdigit(body[i]) \/ body[i] = "_"
    /\ \A i \in 1..(Len(body) - 1) : ~(body[i] = "_" /\ body[i + 1] = "_")

\* the int of the sign ("+", "-" or "") and the digits after it
signed_int(sign, body) ==
    IF ~wellformed(body) THEN ValueError
    ELSE [ok |-> TRUE,
          val |-> IF sign = "-"
                  THEN 0 - digits_value(SelectSeq(body, isdigit))
                  ELSE digits_value(SelectSeq(body, isdigit))]

\* int(u) for a u without surrounding whitespace
int_of_stripped(u) ==
    IF u # <<>> /\ u[1] \in {"+", "-"}
    THEN signed_int(u[1], Tail(u))
    ELSE signed_int("", u)

py_int(t) == int_of_stripped(strip(t))

(***************************************************************************)
(* The timestamp conversion, the same two lines in every revision:         *)
(*   time_parts = time_str.split(':')                                      *)
(*   seconds = sum(x * int(t) for x, t in zip([3600, 60, 1], time_parts[-3:])) *)
(* zip pairs the weights with the groups from the left and stops at the    *)
(* shorter of the two.                                                     *)
(***************************************************************************)
\* variant of WEIGHTS that counts the first group as minutes
WEIGHTS_first_as_minutes == <<60, 60, 1>>

WEIGHTS == <<3600, 60, 1>>

\* parts[-3:]
last_three(parts) ==
    IF Len(parts) <= 3 THEN parts ELSE SubSeq(parts, Len(parts) - 2, Len(parts))

\* zip(weights, groups): the list of pairs
zip(weights, groups) ==
    LET n == Min(Len(weights), Len(groups))
    IN  IF n = 0 THEN <<>> ELSE [i \in 1..n |-> <<weights[i], groups[i]>>] \o <<>>

RECURSIVE sum_products(_)
sum_products(pairs) ==
    IF pairs = <<>> THEN 0
    ELSE pairs[1][1] * py_int(pairs[1][2]).val + sum_products(Tail(pairs))

\* sum(x * int(t) for x, t in pairs); ValueError when an int(t) raises
sum_of(pairs) ==
    IF \E i \in 1..Len(pairs) : ~py_int(pairs[i][2]).ok
    THEN ValueError
    ELSE [ok |-> TRUE, val |-> sum_products(pairs)]

timestamp_seconds(time_str) ==
    sum_of(zip(WEIGHTS, last_three(split_sep(time_str, ":"))))

(***************************************************************************)
(* float                                                                   *)
(***************************************************************************)
FZero == <<0,0,0>>
FHalf == <<0,500000000,0>>
FOne == <<1,0,0>>

FLess(x, y) ==
    \/ x[1] < y[1]
    \/ x[1] = y[1] /\ x[2] < y[2]
    \/ x[1] = y[1] /\ x[2] = y[2] /\ x[3] < y[3]

FLeq(x, y) == x = y \/ FLess(x, y)

\* QUOTIENT[b][a + 1] is the double a / b, for a in 0..18 and b in 1..18
QUOTIENT == <<
    <<<<0,0,0>>, <<1,0,0>>, <<2,0,0>>, <<3,0,0>>, <<4,0,0>>, <<5,0,0>>, <<6,0,0>>, <<7,0,0>>, <<8,0,0>>, <<9,0,0>>, <<10,0,0>>, <<11,0,0>>, <<12,0,0>>, <<13,0,0>>, <<14,0,0>>, <<15,0,0>>, <<16,0,0>>, <<17,0,0>>, <<18,0,0>>>>,
    <<<<0,0,0>>, <<0,500000000,0>>, <<1,0,0>>, <<1,500000000,0>>, <<2,0,0>>, <<2,500000000,0>>, <<3,0,0>>, <<3,500000000,0>>, <<4,0,0>>, <<4,500000000,0>>, <<5,0,0>>, <<5,500000000,0>>, <<6,0,0>>, <<6,500000000,0>>, <<7,0,0>>, <<7,500000000,0>>, <<8,0,0>>, <<8,500000000,0>>, <<9,0,0>>>>,
    <<<<0,0,0>>, <<0,333333333,333333314>>, <<0,666666666,666666629>>, <<1,0,0>>, <<1,333333333,333333259>>, <<1,666666666,666666740>>, <<2,0,0>>, <<2,333333333,333333481>>, <<2,666666666,666666518>>, <<3,0,0>>, <<3,333333333,333333481>>, <<3,666666666,666666518>>, <<4,0,0>>, <<4,333333333,333333037>>, <<4,666666666,666666962>>, <<5,0,0>>, <<5,333333333,333333037>>, <<5,666666666,666666962>>, <<6,0,0>>>>,
    <<<<0,0,0>>, <<0,250000000,0>>, <<0,500000000,0>>, <<0,750000000,0>>, <<1,0,0>>, <<1,250000000,0>>, <<1,500000000,0>>, <<1,750000000,0>>, <<2,0,0>>, <<2,250000000,0>>, <<2,500000000,0>>, <<2,750000000,0>>, <<3,0,0>>, <<3,250000000,0>>, <<3,500000000,0>>, <<3,750000000,0>>, <<4,0,0>>, <<4,250000000,0>>, <<4,500000000,0>>>>,
    <<<<0,0,0>>, <<0,200000000,11>>, <<0,400000000,22>>, <<0,599999999,999999977>>, <<0,800000000,44>>, <<1,0,0>>, <<1,199999999,999999955>>, <<1,399999999,999999911>>, <<1,600000000,88>>, <<1,800000000,44>>, <<2,0,0>>, <<2,200000000,177>>, <<2,399999999,999999911>>, <<2,600000000,88>>, <<2,799999999,999999822>>, <<3,0,0>>, <<3,200000000,177>>, <<3,399999999,999999911>>, <<3,600000000,88>>>>,
    <<<<0,0,0>>, <<0,166666666,666666657>>, <<0,333333333,333333314>>, <<0,500000000,0>>, <<0,666666666,666666629>>, <<0,833333333,333333370>>, <<1,0,0>>, <<1,166666666,666666740>>, <<1,333333333,333333259>>, <<1,500000000,0>>, <<1,666666666,666666740>>, <<1,833333333,333333259>>, <<2,0,0>>, <<2,166666666,666666518>>, <<2,333333333,333333481>>, <<2,500000000,0>>, <<2,666666666,666666518>>, <<2,833333333,333333481>>, <<3,0,0>>>>,
    <<<<0,0,0>>, <<0,142857142,857142849>>, <<0,285714285,714285698>>, <<0,428571428,571428547>>, <<0,571428571,428571396>>, <<0,714285714,285714301>>, <<0,857142857,142857095>>, <<1,0,0>>, <<1,142857142,857142793>>, <<1,285714285,714285809>>, <<1,428571428,571428603>>, <<1,571428571,428571396>>, <<1,714285714,285714190>>, <<1,857142857,142857206>>, <<2,0,0>>, <<2,142857142,857142793>>, <<2,285714285,714285587>>, <<2,428571428,571428381>>, <<2,571428571,428571618>>>>,
    <<<<0,0,0>>, <<0,125000000,0>>, <<0,250000000,0>>, <<0,375000000,0>>, <<0,500000000,0>>, <<0,625000000,0>>, <<0,750000000,0>>, <<0,875000000,0>>, <<1,0,0>>, <<1,125000000,0>>, <<1,250000000,0>>, <<1,375000000,0>>, <<1,500000000,0>>, <<1,625000000,0>>, <<1,750000000,0>>, <<1,875000000,0>>, <<2,0,0>>, <<2,125000000,0>>, <<2,250000000,0>>>>,
    <<<<0,0,0>>, <<0,111111111,111111104>>, <<0,222222222,222222209>>, <<0,333333333,333333314>>, <<0,444444444,444444419>>, <<0,555555555,555555580>>, <<0,666666666,666666629>>, <<0,777777777,777777790>>, <<0,888888888,888888839>>, <<1,0,0>>, <<1,111111111,111111160>>, <<1,222222222,222222320>>, <<1,333333333,333333259>>, <<1,444444444,444444419>>, <<1,555555555,555555580>>, <<1,666666666,666666740>>, <<1,777777777,777777679>>, <<1,888888888,888888839>>, <<2,0,0>>>>,
    <<<<0,0,0>>, <<0,100000000,5>>, <<0,200000000,11>>, <<0,299999999,999999988>>, <<0,400000000,22>>, <<0,500000000,0>>, <<0,599999999,999999977>>, <<0,699999999,999999955>>, <<0,800000000,44>>, <<0,900000000,22>>, <<1,0,0>>, <<1,100000000,88>>, <<1,199999999,999999955>>, <<1,300000000,44>>, <<1,399999999,999999911>>, <<1,500000000,0>>, <<1,600000000,88>>, <<1,699999999,999999955>>, <<1,800000000,44>>>>,
    <<<<0,0,0>>, <<0,90909090,909090911>>, <<0,181818181,818181823>>, <<0,272727272,727272707>>, <<0,363636363,636363646>>, <<0,454545454,545454530>>, <<0,545454545,454545414>>, <<0,636363636,363636353>>, <<0,727272727,272727292>>, <<0,818181818,181818232>>, <<0,909090909,90909060>>, <<1,0,0>>, <<1,90909090,909090828>>, <<1,181818181,818181878>>, <<1,272727272,727272707>>, <<1,363636363,636363535>>, <<1,454545454,545454585>>, <<1,545454545,454545414>>, <<1,636363636,363636464>>>>,
    <<<<0,0,0>>, <<0,83333333,333333328>>, <<0,166666666,666666657>>, <<0,250000000,0>>, <<0,333333333,333333314>>, <<0,416666666,666666685>>, <<0,500000000,0>>, <<0,583333333,333333370>>, <<0,666666666,666666629>>, <<0,750000000,0>>, <<0,833333333,333333370>>, <<0,916666666,666666629>>, <<1,0,0>>, <<1,83333333,333333259>>, <<1,166666666,666666740>>, <<1,250000000,0>>, <<1,333333333,333333259>>, <<1,416666666,666666740>>, <<1,500000000,0>>>>,
    <<<<0,0,0>>, <<0,76923076,923076927>>, <<0,153846153,846153854>>, <<0,230769230,769230782>>, <<0,307692307,692307709>>, <<0,384615384,615384636>>, <<0,461538461,538461564>>, <<0,538461538,461538435>>, <<0,615384615,384615418>>, <<0,692307692,307692290>>, <<0,769230769,230769273>>, <<0,846153846,153846145>>, <<0,923076923,76923128>>, <<1,0,0>>, <<1,76923076,923076871>>, <<1,153846153,846153743>>, <<1,230769230,769230837>>, <<1,307692307,692307709>>, <<1,384615384,615384581>>>>,
    <<<<0,0,0>>, <<0,71428571,428571424>>, <<0,142857142,857142849>>, <<0,214285714,285714273>>, <<0,285714285,714285698>>, <<0,357142857,142857150>>, <<0,428571428,571428547>>, <<0,500000000,0>>, <<0,571428571,428571396>>, <<0,642857142,857142904>>, <<0,714285714,285714301>>, <<0,785714285,714285698>>, <<0,857142857,142857095>>, <<0,928571428,571428603>>, <<1,0,0>>, <<1,71428571,428571396>>, <<1,142857142,857142793>>, <<1,214285714,285714190>>, <<1,285714285,714285809>>>>,
    <<<<0,0,0>>, <<0,66666666,666666665>>, <<0,133333333,333333331>>, <<0,200000000,11>>, <<0,266666666,666666662>>, <<0,333333333,333333314>>, <<0,400000000,22>>, <<0,466666666,666666674>>, <<0,533333333,333333325>>, <<0,599999999,999999977>>, <<0,666666666,666666629>>, <<0,733333333,333333281>>, <<0,800000000,44>>, <<0,866666666,666666696>>, <<0,933333333,333333348>>, <<1,0,0>>, <<1,66666666,666666651>>, <<1,133333333,333333303>>, <<1,199999999,999999955>>>>,
    <<<<0,0,0>>, <<0,62500000,0>>, <<0,125000000,0>>, <<0,187500000,0>>, <<0,250000000,0>>, <<0,312500000,0>>, <<0,375000000,0>>, <<0,437500000,0>>, <<0,500000000,0>>, <<0,562500000,0>>, <<0,625000000,0>>, <<0,687500000,0>>, <<0,750000000,0>>, <<0,812500000,0>>, <<0,875000000,0>>, <<0,937500000,0>>, <<1,0,0>>, <<1,62500000,0>>, <<1,125000000,0>>>>,
    <<<<0,0,0>>, <<0,58823529,411764705>>, <<0,117647058,823529410>>, <<0,176470588,235294129>>, <<0,235294117,647058820>>, <<0,294117647,58823539>>, <<0,352941176,470588258>>, <<0,411764705,882352921>>, <<0,470588235,294117640>>, <<0,529411764,705882359>>, <<0,588235294,117647078>>, <<0,647058823,529411797>>, <<0,705882352,941176516>>, <<0,764705882,352941124>>, <<0,823529411,764705843>>, <<0,882352941,176470562>>, <<0,941176470,588235281>>, <<1,0,0>>, <<1,58823529,411764718>>>>,
    <<<<0,0,0>>, <<0,55555555,555555552>>, <<0,111111111,111111104>>, <<0,166666666,666666657>>, <<0,222222222,222222209>>, <<0,277777777,777777790>>, <<0,333333333,333333314>>, <<0,388888888,888888895>>, <<0,444444444,444444419>>, <<0,500000000,0>>, <<0,555555555,555555580>>, <<0,611111111,111111160>>, <<0,666666666,666666629>>, <<0,722222222,222222209>>, <<0,777777777,777777790>>, <<0,833333333,333333370>>, <<0,888888888,888888839>>, <<0,944444444,444444419>>, <<1,0,0>>>> >>

\* a / b for ints
fdiv(a, b) == QUOTIENT[b][a + 1]

\* the float literals of the scoring formulas
F0_6 == <<0,599999999,999999977>>
F0_2 == <<0,200000000,11>>
F0_3 == <<0,299999999,999999988>>
F1_2 == <<1,199999999,999999955>>

\* FMUL holds <<x, y, x * y>> for the doubles the scoring multiplies:
\*   x * 0.6 and x * 0.2 and x * 1.2 for x = a / b (a in 0..4, b in 1..3) or 0.5,
\*   x * 0.3 for x = e / 18 (e in 0..18) and for x = e / 17 (e in 0..4)
FMUL == {
    <<<<0,0,0>>, <<0,200000000,11>>, <<0,0,0>>>>,
    <<<<0,0,0>>, <<0,299999999,999999988>>, <<0,0,0>>>>,
    <<<<0,0,0>>, <<0,599999999,999999977>>, <<0,0,0>>>>,
    <<<<0,0,0>>, <<1,199999999,999999955>>, <<0,0,0>>>>,
    <<<<0,55555555,555555552>>, <<0,299999999,999999988>>, <<0,16666666,666666666>>>>,
    <<<<0,58823529,411764705>>, <<0,299999999,999999988>>, <<0,17647058,823529411>>>>,
    <<<<0,111111111,111111104>>, <<0,299999999,999999988>>, <<0,33333333,333333332>>>>,
    <<<<0,117647058,823529410>>, <<0,299999999,999999988>>, <<0,35294117,647058823>>>>,
    <<<<0,166666666,666666657>>, <<0,299999999,999999988>>, <<0,49999999,999999995>>>>,
    <<<<0,176470588,235294129>>, <<0,299999999,999999988>>, <<0,52941176,470588234>>>>,
    <<<<0,222222222,222222209>>, <<0,299999999,999999988>>, <<0,66666666,666666665>>>>,
    <<<<0,235294117,647058820>>, <<0,299999999,999999988>>, <<0,70588235,294117646>>>>,
    <<<<0,277777777,777777790>>, <<0,299999999,999999988>>, <<0,83333333,333333328>>>>,
    <<<<0,333333333,333333314>>, <<0,200000000,11>>, <<0,66666666,666666665>>>>,
    <<<<0,333333333,333333314>>, <<0,299999999,999999988>>, <<0,99999999,999999991>>>>,
    <<<<0,333333333,333333314>>, <<0,599999999,999999977>>, <<0,199999999,999999983>>>>,
    <<<<0,333333333,333333314>>, <<1,199999999,999999955>>, <<0,399999999,999999966>>>>,
    <<<<0,388888888,888888895>>, <<0,299999999,999999988>>, <<0,116666666,666666668>>>>,
    <<<<0,444444444,444444419>>, <<0,299999999,999999988>>, <<0,133333333,333333331>>>>,
    <<<<0,500000000,0>>, <<0,200000000,11>>, <<0,100000000,5>>>>,
    <<<<0,500000000,0>>, <<0,299999999,999999988>>, <<0,149999999,999999994>>>>,
    <<<<0,500000000,0>>, <<0,599999999,999999977>>, <<0,299999999,999999988>>>>,
    <<<<0,500000000,0>>, <<1,199999999,999999955>>, <<0,599999999,999999977>>>>,
    <<<<0,555555555,555555580>>, <<0,299999999,999999988>>, <<0,166666666,666666657>>>>,
    <<<<0,611111111,111111160>>, <<0,299999999,999999988>>, <<0,183333333,333333348>>>>,
    <<<<0,666666666,666666629>>, <<0,200000000,11>>, <<0,133333333,333333331>>>>,
    <<<<0,666666666,666666629>>, <<0,299999999,999999988>>, <<0,199999999,999999983>>>>,
    <<<<0,666666666,666666629>>, <<0,599999999,999999977>>, <<0,399999999,999999966>>>>,
    <<<<0,666666666,666666629>>, <<1,199999999,999999955>>, <<0,799999999,999999933>>>>,
    <<<<0,722222222,222222209>>, <<0,299999999,999999988>>, <<0,216666666,666666646>>>>,
    <<<<0,777777777,777777790>>, <<0,299999999,999999988>>, <<0,233333333,333333337>>>>,
    <<<<0,833333333,333333370>>, <<0,299999999,999999988>>, <<0,250000000,0>>>>,
    <<<<0,888888888,888888839>>, <<0,299999999,999999988>>, <<0,266666666,666666662>>>>,
    <<<<0,944444444,444444419>>, <<0,299999999,999999988>>, <<0,283333333,333333325>>>>,
    <<<<1,0,0>>, <<0,200000000,11>>, <<0,200000000,11>>>>,
    <<<<1,0,0>>, <<0,299999999,999999988>>, <<0,299999999,999999988>>>>,
    <<<<1,0,0>>, <<0,599999999,999999977>>, <<0,599999999,999999977>>>>,
    <<<<1,0,0>>, <<1,199999999,999999955>>, <<1,199999999,999999955>>>>,
    <<<<1,333333333,333333259>>, <<0,200000000,11>>, <<0,266666666,666666662>>>>,
    <<<<1,333333333,333333259>>, <<0,599999999,999999977>>, <<0,799999999,999999933>>>>,
    <<<<1,333333333,333333259>>, <<1,199999999,999999955>>, <<1,599999999,999999866>>>>,
    <<<<1,500000000,0>>, <<0,200000000,11>>, <<0,300000000,44>>>>,
    <<<<1,500000000,0>>, <<0,599999999,999999977>>, <<0,899999999,999999911>>>>,
    <<<<1,500000000,0>>, <<1,199999999,999999955>>, <<1,799999999,999999822>>>>,
    <<<<2,0,0>>, <<0,200000000,11>>, <<0,400000000,22>>>>,
    <<<<2,0,0>>, <<0,599999999,999999977>>, <<1,199999999,999999955>>>>,
    <<<<2,0,0>>, <<1,199999999,999999955>>, <<2,399999999,999999911>>>>,
    <<<<3,0,0>>, <<0,200000000,11>>, <<0,600000000,88>>>>,
    <<<<3,0,0>>, <<0,599999999,999999977>>, <<1,799999999,999999822>>>>,
    <<<<3,0,0>>, <<1,199999999,999999955>>, <<3,599999999,999999644>>>>,
    <<<<4,0,0>>, <<0,200000000,11>>, <<0,800000000,44>>>>,
    <<<<4,0,0>>, <<0,599999999,999999977>>, <<2,399999999,999999911>>>>,
    <<<<4,0,0>>, <<1,199999999,999999955>>, <<4,799999999,999999822>>>> }

\* x * y
fmul(x, y) == (CHOOSE p \in FMUL : p[1] = x /\ p[2] = y)[3]

\* FADD holds <<x, y, x + y>> for the doubles the scoring adds:
\*   (t * 0.6) + (c * 0.2) and ((t * 0.6) + (c * 0.2)) + 0.2 for ratios t and c,
\*   t + (e / 18) * 0.3 for a ratio t and e in 0..18,
\*   ((t * 0.6) + (c * 0.2)) + (e / 17) * 0.3 for e in 0..4,
\*   ((t * 0.6) + (c * 0.2)) + 0.3
FADD == {
    <<<<0,0,0>>, <<0,0,0>>, <<0,0,0>>>>,
    <<<<0,0,0>>, <<0,16666666,666666666>>, <<0,16666666,666666666>>>>,
    <<<<0,0,0>>, <<0,17647058,823529411>>, <<0,17647058,823529411>>>>,
    <<<<0,0,0>>, <<0,33333333,333333332>>, <<0,33333333,333333332>>>>,
    <<<<0,0,0>>, <<0,35294117,647058823>>, <<0,35294117,647058823>>>>,
    <<<<0,0,0>>, <<0,49999999,999999995>>, <<0,49999999,999999995>>>>,
    <<<<0,0,0>>, <<0,52941176,470588234>>, <<0,52941176,470588234>>>>,
    <<<<0,0,0>>, <<0,66666666,666666665>>, <<0,66666666,666666665>>>>,
    <<<<0,0,0>>, <<0,70588235,294117646>>, <<0,70588235,294117646>>>>,
    <<<<0,0,0>>, <<0,83333333,333333328>>, <<0,83333333,333333328>>>>,
    <<<<0,0,0>>, <<0,99999999,999999991>>, <<0,99999999,999999991>>>>,
    <<<<0,0,0>>, <<0,100000000,5>>, <<0,100000000,5>>>>,
    <<<<0,0,0>>, <<0,116666666,666666668>>, <<0,116666666,666666668>>>>,
    <<<<0,0,0>>, <<0,133333333,333333331>>, <<0,133333333,333333331>>>>,
    <<<<0,0,0>>, <<0,149999999,999999994>>, <<0,149999999,999999994>>>>,
    <<<<0,0,0>>, <<0,166666666,666666657>>, <<0,166666666,666666657>>>>,
    <<<<0,0,0>>, <<0,183333333,333333348>>, <<0,183333333,333333348>>>>,
    <<<<0,0,0>>, <<0,199999999,999999983>>, <<0,199999999,999999983>>>>,
    <<<<0,0,0>>, <<0,200000000,11>>, <<0,200000000,11>>>>,
    <<<<0,0,0>>, <<0,216666666,666666646>>, <<0,216666666,666666646>>>>,
    <<<<0,0,0>>, <<0,233333333,333333337>>, <<0,233333333,333333337>>>>,
    <<<<0,0,0>>, <<0,250000000,0>>, <<0,250000000,0>>>>,
    <<<<0,0,0>>, <<0,266666666,666666662>>, <<0,266666666,666666662>>>>,
    <<<<0,0,0>>, <<0,283333333,333333325>>, <<0,283333333,333333325>>>>,
    <<<<0,0,0>>, <<0,299999999,999999988>>, <<0,299999999,999999988>>>>,
    <<<<0,0,0>>, <<0,300000000,44>>, <<0,300000000,44>>>>,
    <<<<0,0,0>>, <<0,400000000,22>>, <<0,400000000,22>>>>,
    <<<<0,0,0>>, <<0,600000000,88>>, <<0,600000000,88>>>>,
    <<<<0,0,0>>, <<0,800000000,44>>, <<0,800000000,44>>>>,
    <<<<0,66666666,666666665>>, <<0,0,0>>, <<0,66666666,666666665>>>>,
    <<<<0,66666666,666666665>>, <<0,17647058,823529411>>, <<0,84313725,490196084>>>>,
    <<<<0,66666666,666666665>>, <<0,35294117,647058823>>, <<0,101960784,313725488>>>>,
    <<<<0,66666666,666666665>>, <<0,52941176,470588234>>, <<0,119607843,137254893>>>>,
    <<<<0,66666666,666666665>>, <<0,70588235,294117646>>, <<0,137254901,960784325>>>>,
    <<<<0,66666666,666666665>>, <<0,200000000,11>>, <<0,266666666,666666662>>>>,
    <<<<0,66666666,666666665>>, <<0,299999999,999999988>>, <<0,366666666,666666640>>>>,
    <<<<0,100000000,5>>, <<0,0,0>>, <<0,100000000,5>>>>,
    <<<<0,100000000,5>>, <<0,17647058,823529411>>, <<0,117647058,823529410>>>>,
    <<<<0,100000000,5>>, <<0,35294117,647058823>>, <<0,135294117,647058842>>>>,
    <<<<0,100000000,5>>, <<0,52941176,470588234>>, <<0,152941176,470588247>>>>,
    <<<<0,100000000,5>>, <<0,70588235,294117646>>, <<0,170588235,294117651>>>>,
    <<<<0,100000000,5>>, <<0,200000000,11>>, <<0,300000000,44>>>>,
    <<<<0,100000000,5>>, <<0,299999999,999999988>>, <<0,400000000,22>>>>,
    <<<<0,133333333,333333331>>, <<0,0,0>>, <<0,133333333,333333331>>>>,
    <<<<0,133333333,333333331>>, <<0,17647058,823529411>>, <<0,150980392,156862736>>>>,
    <<<<0,133333333,333333331>>, <<0,35294117,647058823>>, <<0,168627450,980392168>>>>,
    <<<<0,133333333,333333331>>, <<0,52941176,470588234>>, <<0,186274509,803921572>>>>,
    <<<<0,133333333,333333331>>, <<0,70588235,294117646>>, <<0,203921568,627450977>>>>,
    <<<<0,133333333,333333331>>, <<0,200000000,11>>, <<0,333333333,333333370>>>>,
    <<<<0,133333333,333333331>>, <<0,299999999,999999988>>, <<0,433333333,333333348>>>>,
    <<<<0,199999999,999999983>>, <<0,0,0>>, <<0,199999999,999999983>>>>,
    <<<<0,199999999,999999983>>, <<0,17647058,823529411>>, <<0,217647058,823529387>>>>,
    <<<<0,199999999,999999983>>, <<0,35294117,647058823>>, <<0,235294117,647058820>>>>,
    <<<<0,199999999,999999983>>, <<0,52941176,470588234>>, <<0,252941176,470588224>>>>,
    <<<<0,199999999,999999983>>, <<0,66666666,666666665>>, <<0,266666666,666666662>>>>,
    <<<<0,199999999,999999983>>, <<0,70588235,294117646>>, <<0,270588235,294117629>>>>,
    <<<<0,199999999,999999983>>, <<0,100000000,5>>, <<0,299999999,999999988>>>>,
    <<<<0,199999999,999999983>>, <<0,133333333,333333331>>, <<0,333333333,333333314>>>>,
    <<<<0,199999999,999999983>>, <<0,200000000,11>>, <<0,400000000,22>>>>,
    <<<<0,199999999,999999983>>, <<0,266666666,666666662>>, <<0,466666666,666666674>>>>,
    <<<<0,199999999,999999983>>, <<0,299999999,999999988>>, <<0,500000000,0>>>>,
    <<<<0,199999999,999999983>>, <<0,300000000,44>>, <<0,500000000,0>>>>,
    <<<<0,199999999,999999983>>, <<0,400000000,22>>, <<0,599999999,999999977>>>>,
    <<<<0,199999999,999999983>>, <<0,600000000,88>>, <<0,800000000,44>>>>,
    <<<<0,199999999,999999983>>, <<0,800000000,44>>, <<1,0,0>>>>,
    <<<<0,200000000,11>>, <<0,0,0>>, <<0,200000000,11>>>>,
    <<<<0,200000000,11>>, <<0,17647058,823529411>>, <<0,217647058,823529415>>>>,
    <<<<0,200000000,11>>, <<0,35294117,647058823>>, <<0,235294117,647058820>>>>,
    <<<<0,200000000,11>>, <<0,52941176,470588234>>, <<0,252941176,470588224>>>>,
    <<<<0,200000000,11>>, <<0,70588235,294117646>>, <<0,270588235,294117684>>>>,
    <<<<0,200000000,11>>, <<0,200000000,11>>, <<0,400000000,22>>>>,
    <<<<0,200000000,11>>, <<0,299999999,999999988>>, <<0,500000000,0>>>>,
    <<<<0,266666666,666666662>>, <<0,0,0>>, <<0,266666666,666666662>>>>,
    <<<<0,266666666,666666662>>, <<0,17647058,823529411>>, <<0,284313725,490196067>>>>,
    <<<<0,266666666,666666662>>, <<0,35294117,647058823>>, <<0,301960784,313725472>>>>,
    <<<<0,266666666,666666662>>, <<0,52941176,470588234>>, <<0,319607843,137254876>>>>,
    <<<<0,266666666,666666662>>, <<0,70588235,294117646>>, <<0,337254901,960784336>>>>,
    <<<<0,266666666,666666662>>, <<0,200000000,11>>, <<0,466666666,666666674>>>>,
    <<<<0,266666666,666666662>>, <<0,299999999,999999988>>, <<0,566666666,666666651>>>>,
    <<<<0,299999999,999999988>>, <<0,0,0>>, <<0,299999999,999999988>>>>,
    <<<<0,299999999,999999988>>, <<0,17647058,823529411>>, <<0,317647058,823529393>>>>,
    <<<<0,299999999,999999988>>, <<0,35294117,647058823>>, <<0,335294117,647058798>>>>,
    <<<<0,299999999,999999988>>, <<0,52941176,470588234>>, <<0,352941176,470588202>>>>,
    <<<<0,299999999,999999988>>, <<0,66666666,666666665>>, <<0,366666666,666666640>>>>,
    <<<<0,299999999,999999988>>, <<0,70588235,294117646>>, <<0,370588235,294117662>>>>,
    <<<<0,299999999,999999988>>, <<0,100000000,5>>, <<0,400000000,22>>>>,
    <<<<0,299999999,999999988>>, <<0,133333333,333333331>>, <<0,433333333,333333348>>>>,
    <<<<0,299999999,999999988>>, <<0,200000000,11>>, <<0,500000000,0>>>>,
    <<<<0,299999999,999999988>>, <<0,266666666,666666662>>, <<0,566666666,666666651>>>>,
    <<<<0,299999999,999999988>>, <<0,299999999,999999988>>, <<0,599999999,999999977>>>>,
    <<<<0,299999999,999999988>>, <<0,300000000,44>>, <<0,600000000,88>>>>,
    <<<<0,299999999,999999988>>, <<0,400000000,22>>, <<0,699999999,999999955>>>>,
    <<<<0,299999999,999999988>>, <<0,600000000,88>>, <<0,900000000,133>>>>,
    <<<<0,299999999,999999988>>, <<0,800000000,44>>, <<1,100000000,88>>>>,
    <<<<0,300000000,44>>, <<0,0,0>>, <<0,300000000,44>>>>,
    <<<<0,300000000,44>>, <<0,17647058,823529411>>, <<0,317647058,823529448>>>>,
    <<<<0,300000000,44>>, <<0,35294117,647058823>>, <<0,335294117,647058853>>>>,
    <<<<0,300000000,44>>, <<0,52941176,470588234>>, <<0,352941176,470588258>>>>,
    <<<<0,300000000,44>>, <<0,70588235,294117646>>, <<0,370588235,294117662>>>>,
    <<<<0,300000000,44>>, <<0,200000000,11>>, <<0,500000000,0>>>>,
    <<<<0,300000000,44>>, <<0,299999999,999999988>>, <<0,600000000,88>>>>,
    <<<<0,333333333,333333314>>, <<0,0,0>>, <<0,333333333,333333314>>>>,
    <<<<0,333333333,333333314>>, <<0,16666666,666666666>>, <<0,349999999,999999977>>>>,
    <<<<0,333333333,333333314>>, <<0,17647058,823529411>>, <<0,350980392,156862719>>>>,
    <<<<0,333333333,333333314>>, <<0,33333333,333333332>>, <<0,366666666,666666640>>>>,
    <<<<0,333333333,333333314>>, <<0,35294117,647058823>>, <<0,368627450,980392123>>>>,
    <<<<0,333333333,333333314>>, <<0,49999999,999999995>>, <<0,383333333,333333303>>>>,
    <<<<0,333333333,333333314>>, <<0,52941176,470588234>>, <<0,386274509,803921528>>>>,
    <<<<0,333333333,333333314>>, <<0,66666666,666666665>>, <<0,399999999,999999966>>>>,
    <<<<0,333333333,333333314>>, <<0,70588235,294117646>>, <<0,403921568,627450988>>>>,
    <<<<0,333333333,333333314>>, <<0,83333333,333333328>>, <<0,416666666,666666629>>>>,
    <<<<0,333333333,333333314>>, <<0,99999999,999999991>>, <<0,433333333,333333292>>>>,
    <<<<0,333333333,333333314>>, <<0,116666666,666666668>>, <<0,449999999,999999955>>>>,
    <<<<0,333333333,333333314>>, <<0,133333333,333333331>>, <<0,466666666,666666674>>>>,
    <<<<0,333333333,333333314>>, <<0,149999999,999999994>>, <<0,483333333,333333281>>>>,
    <<<<0,333333333,333333314>>, <<0,166666666,666666657>>, <<0,500000000,0>>>>,
    <<<<0,333333333,333333314>>, <<0,183333333,333333348>>, <<0,516666666,666666607>>>>,
    <<<<0,333333333,333333314>>, <<0,199999999,999999983>>, <<0,533333333,333333325>>>>,
    <<<<0,333333333,333333314>>, <<0,200000000,11>>, <<0,533333333,333333325>>>>,
    <<<<0,333333333,333333314>>, <<0,216666666,666666646>>, <<0,549999999,999999933>>>>,
    <<<<0,333333333,333333314>>, <<0,233333333,333333337>>, <<0,566666666,666666651>>>>,
    <<<<0,333333333,333333314>>, <<0,250000000,0>>, <<0,583333333,333333259>>>>,
    <<<<0,333333333,333333314>>, <<0,266666666,666666662>>, <<0,599999999,999999977>>>>,
    <<<<0,333333333,333333314>>, <<0,283333333,333333325>>, <<0,616666666,666666696>>>>,
    <<<<0,333333333,333333314>>, <<0,299999999,999999988>>, <<0,633333333,333333303>>>>,
    <<<<0,366666666,666666640>>, <<0,0,0>>, <<0,366666666,666666640>>>>,
    <<<<0,366666666,666666640>>, <<0,17647058,823529411>>, <<0,384313725,490196045>>>>,
    <<<<0,366666666,666666640>>, <<0,35294117,647058823>>, <<0,401960784,313725449>>>>,
    <<<<0,366666666,666666640>>, <<0,52941176,470588234>>, <<0,419607843,137254854>>>>,
    <<<<0,366666666,666666640>>, <<0,70588235,294117646>>, <<0,437254901,960784314>>>>,
    <<<<0,366666666,666666640>>, <<0,200000000,11>>, <<0,566666666,666666651>>>>,
    <<<<0,366666666,666666640>>, <<0,299999999,999999988>>, <<0,666666666,666666629>>>>,
    <<<<0,399999999,999999966>>, <<0,0,0>>, <<0,399999999,999999966>>>>,
    <<<<0,399999999,999999966>>, <<0,17647058,823529411>>, <<0,417647058,823529371>>>>,
    <<<<0,399999999,999999966>>, <<0,35294117,647058823>>, <<0,435294117,647058775>>>>,
    <<<<0,399999999,999999966>>, <<0,52941176,470588234>>, <<0,452941176,470588180>>>>,
    <<<<0,399999999,999999966>>, <<0,66666666,666666665>>, <<0,466666666,666666618>>>>,
    <<<<0,399999999,999999966>>, <<0,70588235,294117646>>, <<0,470588235,294117640>>>>,
    <<<<0,399999999,999999966>>, <<0,100000000,5>>, <<0,500000000,0>>>>,
    <<<<0,399999999,999999966>>, <<0,133333333,333333331>>, <<0,533333333,333333325>>>>,
    <<<<0,399999999,999999966>>, <<0,200000000,11>>, <<0,599999999,999999977>>>>,
    <<<<0,399999999,999999966>>, <<0,266666666,666666662>>, <<0,666666666,666666629>>>>,
    <<<<0,399999999,999999966>>, <<0,299999999,999999988>>, <<0,699999999,999999955>>>>,
    <<<<0,399999999,999999966>>, <<0,300000000,44>>, <<0,699999999,999999955>>>>,
    <<<<0,399999999,999999966>>, <<0,400000000,22>>, <<0,800000000,44>>>>,
    <<<<0,399999999,999999966>>, <<0,600000000,88>>, <<1,0,0>>>>,
    <<<<0,399999999,999999966>>, <<0,800000000,44>>, <<1,199999999,999999955>>>>,
    <<<<0,400000000,22>>, <<0,0,0>>, <<0,400000000,22>>>>,
    <<<<0,400000000,22>>, <<0,17647058,823529411>>, <<0,417647058,823529426>>>>,
    <<<<0,400000000,22>>, <<0,35294117,647058823>>, <<0,435294117,647058831>>>>,
    <<<<0,400000000,22>>, <<0,52941176,470588234>>, <<0,452941176,470588235>>>>,
    <<<<0,400000000,22>>, <<0,70588235,294117646>>, <<0,470588235,294117640>>>>,
    <<<<0,400000000,22>>, <<0,200000000,11>>, <<0,600000000,88>>>>,
    <<<<0,400000000,22>>, <<0,299999999,999999988>>, <<0,699999999,999999955>>>>,
    <<<<0,433333333,333333348>>, <<0,0,0>>, <<0,433333333,333333348>>>>,
    <<<<0,433333333,333333348>>, <<0,17647058,823529411>>, <<0,450980392,156862752>>>>,
    <<<<0,433333333,333333348>>, <<0,35294117,647058823>>, <<0,468627450,980392157>>>>,
    <<<<0,433333333,333333348>>, <<0,52941176,470588234>>, <<0,486274509,803921561>>>>,
    <<<<0,433333333,333333348>>, <<0,70588235,294117646>>, <<0,503921568,627450966>>>>,
    <<<<0,433333333,333333348>>, <<0,200000000,11>>, <<0,633333333,333333303>>>>,
    <<<<0,433333333,333333348>>, <<0,299999999,999999988>>, <<0,733333333,333333392>>>>,
    <<<<0,466666666,666666618>>, <<0,0,0>>, <<0,466666666,666666618>>>>,
    <<<<0,466666666,666666618>>, <<0,17647058,823529411>>, <<0,484313725,490196023>>>>,
    <<<<0,466666666,666666618>>, <<0,35294117,647058823>>, <<0,501960784,313725483>>>>,
    <<<<0,466666666,666666618>>, <<0,52941176,470588234>>, <<0,519607843,137254832>>>>,
    <<<<0,466666666,666666618>>, <<0,70588235,294117646>>, <<0,537254901,960784292>>>>,
    <<<<0,466666666,666666618>>, <<0,200000000,11>>, <<0,666666666,666666629>>>>,
    <<<<0,466666666,666666618>>, <<0,299999999,999999988>>, <<0,766666666,666666607>>>>,
    <<<<0,466666666,666666674>>, <<0,0,0>>, <<0,466666666,666666674>>>>,
    <<<<0,466666666,666666674>>, <<0,17647058,823529411>>, <<0,484313725,490196078>>>>,
    <<<<0,466666666,666666674>>, <<0,35294117,647058823>>, <<0,501960784,313725483>>>>,
    <<<<0,466666666,666666674>>, <<0,52941176,470588234>>, <<0,519607843,137254943>>>>,
    <<<<0,466666666,666666674>>, <<0,70588235,294117646>>, <<0,537254901,960784292>>>>,
    <<<<0,466666666,666666674>>, <<0,200000000,11>>, <<0,666666666,666666740>>>>,
    <<<<0,466666666,666666674>>, <<0,299999999,999999988>>, <<0,766666666,666666607>>>>,
    <<<<0,500000000,0>>, <<0,0,0>>, <<0,500000000,0>>>>,
    <<<<0,500000000,0>>, <<0,16666666,666666666>>, <<0,516666666,666666718>>>>,
    <<<<0,500000000,0>>, <<0,17647058,823529411>>, <<0,517647058,823529460>>>>,
    <<<<0,500000000,0>>, <<0,33333333,333333332>>, <<0,533333333,333333325>>>>,
    <<<<0,500000000,0>>, <<0,35294117,647058823>>, <<0,535294117,647058809>>>>,
    <<<<0,500000000,0>>, <<0,49999999,999999995>>, <<0,550000000,44>>>>,
    <<<<0,500000000,0>>, <<0,52941176,470588234>>, <<0,552941176,470588269>>>>,
    <<<<0,500000000,0>>, <<0,66666666,666666665>>, <<0,566666666,666666651>>>>,
    <<<<0,500000000,0>>, <<0,70588235,294117646>>, <<0,570588235,294117618>>>>,
    <<<<0,500000000,0>>, <<0,83333333,333333328>>, <<0,583333333,333333370>>>>,
    <<<<0,500000000,0>>, <<0,99999999,999999991>>, <<0,599999999,999999977>>>>,
    <<<<0,500000000,0>>, <<0,116666666,666666668>>, <<0,616666666,666666696>>>>,
    <<<<0,500000000,0>>, <<0,133333333,333333331>>, <<0,633333333,333333303>>>>,
    <<<<0,500000000,0>>, <<0,149999999,999999994>>, <<0,650000000,22>>>>,
    <<<<0,500000000,0>>, <<0,166666666,666666657>>, <<0,666666666,666666629>>>>,
    <<<<0,500000000,0>>, <<0,183333333,333333348>>, <<0,683333333,333333348>>>>,
    <<<<0,500000000,0>>, <<0,199999999,999999983>>, <<0,699999999,999999955>>>>,
    <<<<0,500000000,0>>, <<0,200000000,11>>, <<0,699999999,999999955>>>>,
    <<<<0,500000000,0>>, <<0,216666666,666666646>>, <<0,716666666,666666674>>>>,
    <<<<0,500000000,0>>, <<0,233333333,333333337>>, <<0,733333333,333333392>>>>,
    <<<<0,500000000,0>>, <<0,250000000,0>>, <<0,750000000,0>>>>,
    <<<<0,500000000,0>>, <<0,266666666,666666662>>, <<0,766666666,666666607>>>>,
    <<<<0,500000000,0>>, <<0,283333333,333333325>>, <<0,783333333,333333325>>>>,
    <<<<0,500000000,0>>, <<0,299999999,999999988>>, <<0,800000000,44>>>>,
    <<<<0,533333333,333333325>>, <<0,0,0>>, <<0,533333333,333333325>>>>,
    <<<<0,533333333,333333325>>, <<0,17647058,823529411>>, <<0,550980392,156862786>>>>,
    <<<<0,533333333,333333325>>, <<0,35294117,647058823>>, <<0,568627450,980392135>>>>,
    <<<<0,533333333,333333325>>, <<0,52941176,470588234>>, <<0,586274509,803921595>>>>,
    <<<<0,533333333,333333325>>, <<0,70588235,294117646>>, <<0,603921568,627450944>>>>,
    <<<<0,533333333,333333325>>, <<0,200000000,11>>, <<0,733333333,333333392>>>>,
    <<<<0,533333333,333333325>>, <<0,299999999,999999988>>, <<0,833333333,333333259>>>>,
    <<<<0,566666666,666666651>>, <<0,0,0>>, <<0,566666666,666666651>>>>,
    <<<<0,566666666,666666651>>, <<0,17647058,823529411>>, <<0,584313725,490196111>>>>,
    <<<<0,566666666,666666651>>, <<0,35294117,647058823>>, <<0,601960784,313725461>>>>,
    <<<<0,566666666,666666651>>, <<0,52941176,470588234>>, <<0,619607843,137254921>>>>,
    <<<<0,566666666,666666651>>, <<0,70588235,294117646>>, <<0,637254901,960784270>>>>,
    <<<<0,566666666,666666651>>, <<0,200000000,11>>, <<0,766666666,666666607>>>>,
    <<<<0,566666666,666666651>>, <<0,299999999,999999988>>, <<0,866666666,666666696>>>>,
    <<<<0,599999999,999999977>>, <<0,0,0>>, <<0,599999999,999999977>>>>,
    <<<<0,599999999,999999977>>, <<0,17647058,823529411>>, <<0,617647058,823529437>>>>,
    <<<<0,599999999,999999977>>, <<0,35294117,647058823>>, <<0,635294117,647058786>>>>,
    <<<<0,599999999,999999977>>, <<0,52941176,470588234>>, <<0,652941176,470588247>>>>,
    <<<<0,599999999,999999977>>, <<0,66666666,666666665>>, <<0,666666666,666666629>>>>,
    <<<<0,599999999,999999977>>, <<0,70588235,294117646>>, <<0,670588235,294117596>>>>,
    <<<<0,599999999,999999977>>, <<0,100000000,5>>, <<0,699999999,999999955>>>>,
    <<<<0,599999999,999999977>>, <<0,133333333,333333331>>, <<0,733333333,333333281>>>>,
    <<<<0,599999999,999999977>>, <<0,200000000,11>>, <<0,800000000,44>>>>,
    <<<<0,599999999,999999977>>, <<0,266666666,666666662>>, <<0,866666666,666666696>>>>,
    <<<<0,599999999,999999977>>, <<0,299999999,999999988>>, <<0,899999999,999999911>>>>,
    <<<<0,599999999,999999977>>, <<0,300000000,44>>, <<0,900000000,22>>>>,
    <<<<0,599999999,999999977>>, <<0,400000000,22>>, <<1,0,0>>>>,
    <<<<0,599999999,999999977>>, <<0,600000000,88>>, <<1,200000000,177>>>>,
    <<<<0,599999999,999999977>>, <<0,800000000,44>>, <<1,399999999,999999911>>>>,
    <<<<0,600000000,88>>, <<0,0,0>>, <<0,600000000,88>>>>,
    <<<<0,600000000,88>>, <<0,17647058,823529411>>, <<0,617647058,823529548>>>>,
    <<<<0,600000000,88>>, <<0,35294117,647058823>>, <<0,635294117,647058897>>>>,
    <<<<0,600000000,88>>, <<0,52941176,470588234>>, <<0,652941176,470588358>>>>,
    <<<<0,600000000,88>>, <<0,70588235,294117646>>, <<0,670588235,294117707>>>>,
    <<<<0,600000000,88>>, <<0,200000000,11>>, <<0,800000000,44>>>>,
    <<<<0,600000000,88>>, <<0,299999999,999999988>>, <<0,900000000,133>>>>,
    <<<<0,666666666,666666629>>, <<0,0,0>>, <<0,666666666,666666629>>>>,
    <<<<0,666666666,666666629>>, <<0,16666666,666666666>>, <<0,683333333,333333348>>>>,
    <<<<0,666666666,666666629>>, <<0,17647058,823529411>>, <<0,684313725,490196089>>>>,
    <<<<0,666666666,666666629>>, <<0,33333333,333333332>>, <<0,699999999,999999955>>>>,
    <<<<0,666666666,666666629>>, <<0,35294117,647058823>>, <<0,701960784,313725438>>>>,
    <<<<0,666666666,666666629>>, <<0,49999999,999999995>>, <<0,716666666,666666674>>>>,
    <<<<0,666666666,666666629>>, <<0,52941176,470588234>>, <<0,719607843,137254898>>>>,
    <<<<0,666666666,666666629>>, <<0,66666666,666666665>>, <<0,733333333,333333281>>>>,
    <<<<0,666666666,666666629>>, <<0,70588235,294117646>>, <<0,737254901,960784247>>>>,
    <<<<0,666666666,666666629>>, <<0,83333333,333333328>>, <<0,750000000,0>>>>,
    <<<<0,666666666,666666629>>, <<0,99999999,999999991>>, <<0,766666666,666666607>>>>,
    <<<<0,666666666,666666629>>, <<0,116666666,666666668>>, <<0,783333333,333333325>>>>,
    <<<<0,666666666,666666629>>, <<0,133333333,333333331>>, <<0,799999999,999999933>>>>,
    <<<<0,666666666,666666629>>, <<0,149999999,999999994>>, <<0,816666666,666666651>>>>,
    <<<<0,666666666,666666629>>, <<0,166666666,666666657>>, <<0,833333333,333333259>>>>,
    <<<<0,666666666,666666629>>, <<0,183333333,333333348>>, <<0,849999999,999999977>>>>,
    <<<<0,666666666,666666629>>, <<0,199999999,999999983>>, <<0,866666666,666666585>>>>,
    <<<<0,666666666,666666629>>, <<0,200000000,11>>, <<0,866666666,666666696>>>>,
    <<<<0,666666666,666666629>>, <<0,216666666,666666646>>, <<0,883333333,333333303>>>>,
    <<<<0,666666666,666666629>>, <<0,233333333,333333337>>, <<0,899999999,999999911>>>>,
    <<<<0,666666666,666666629>>, <<0,250000000,0>>, <<0,916666666,666666629>>>>,
    <<<<0,666666666,666666629>>, <<0,266666666,666666662>>, <<0,933333333,333333348>>>>,
    <<<<0,666666666,666666629>>, <<0,283333333,333333325>>, <<0,949999999,999999955>>>>,
    <<<<0,666666666,666666629>>, <<0,299999999,999999988>>, <<0,966666666,666666563>>>>,
    <<<<0,699999999,999999955>>, <<0,0,0>>, <<0,699999999,999999955>>>>,
    <<<<0,699999999,999999955>>, <<0,17647058,823529411>>, <<0,717647058,823529415>>>>,
    <<<<0,699999999,999999955>>, <<0,35294117,647058823>>, <<0,735294117,647058764>>>>,
    <<<<0,699999999,999999955>>, <<0,52941176,470588234>>, <<0,752941176,470588224>>>>,
    <<<<0,699999999,999999955>>, <<0,70588235,294117646>>, <<0,770588235,294117573>>>>,
    <<<<0,699999999,999999955>>, <<0,200000000,11>>, <<0,899999999,999999911>>>>,
    <<<<0,699999999,999999955>>, <<0,299999999,999999988>>, <<1,0,0>>>>,
    <<<<0,733333333,333333281>>, <<0,0,0>>, <<0,733333333,333333281>>>>,
    <<<<0,733333333,333333281>>, <<0,17647058,823529411>>, <<0,750980392,156862741>>>>,
    <<<<0,733333333,333333281>>, <<0,35294117,647058823>>, <<0,768627450,980392090>>>>,
    <<<<0,733333333,333333281>>, <<0,52941176,470588234>>, <<0,786274509,803921550>>>>,
    <<<<0,733333333,333333281>>, <<0,70588235,294117646>>, <<0,803921568,627450899>>>>,
    <<<<0,733333333,333333281>>, <<0,200000000,11>>, <<0,933333333,333333348>>>>,
    <<<<0,733333333,333333281>>, <<0,299999999,999999988>>, <<1,33333333,333333214>>>>,
    <<<<0,799999999,999999933>>, <<0,0,0>>, <<0,799999999,999999933>>>>,
    <<<<0,799999999,999999933>>, <<0,17647058,823529411>>, <<0,817647058,823529393>>>>,
    <<<<0,799999999,999999933>>, <<0,35294117,647058823>>, <<0,835294117,647058742>>>>,
    <<<<0,799999999,999999933>>, <<0,52941176,470588234>>, <<0,852941176,470588202>>>>,
    <<<<0,799999999,999999933>>, <<0,66666666,666666665>>, <<0,866666666,666666585>>>>,
    <<<<0,799999999,999999933>>, <<0,70588235,294117646>>, <<0,870588235,294117551>>>>,
    <<<<0,799999999,999999933>>, <<0,100000000,5>>, <<0,899999999,999999911>>>>,
    <<<<0,799999999,999999933>>, <<0,133333333,333333331>>, <<0,933333333,333333237>>>>,
    <<<<0,799999999,999999933>>, <<0,200000000,11>>, <<1,0,0>>>>,
    <<<<0,799999999,999999933>>, <<0,266666666,666666662>>, <<1,66666666,666666651>>>>,
    <<<<0,799999999,999999933>>, <<0,299999999,999999988>>, <<1,99999999,999999866>>>>,
    <<<<0,799999999,999999933>>, <<0,300000000,44>>, <<1,100000000,88>>>>,
    <<<<0,799999999,999999933>>, <<0,400000000,22>>, <<1,199999999,999999955>>>>,
    <<<<0,799999999,999999933>>, <<0,600000000,88>>, <<1,399999999,999999911>>>>,
    <<<<0,799999999,999999933>>, <<0,800000000,44>>, <<1,600000000,88>>>>,
    <<<<0,800000000,44>>, <<0,0,0>>, <<0,800000000,44>>>>,
    <<<<0,800000000,44>>, <<0,17647058,823529411>>, <<0,817647058,823529504>>>>,
    <<<<0,800000000,44>>, <<0,35294117,647058823>>, <<0,835294117,647058853>>>>,
    <<<<0,800000000,44>>, <<0,52941176,470588234>>, <<0,852941176,470588313>>>>,
    <<<<0,800000000,44>>, <<0,70588235,294117646>>, <<0,870588235,294117662>>>>,
    <<<<0,800000000,44>>, <<0,200000000,11>>, <<1,0,0>>>>,
    <<<<0,800000000,44>>, <<0,299999999,999999988>>, <<1,100000000,88>>>>,
    <<<<0,866666666,666666585>>, <<0,0,0>>, <<0,866666666,666666585>>>>,
    <<<<0,866666666,666666585>>, <<0,17647058,823529411>>, <<0,884313725,490196045>>>>,
    <<<<0,866666666,666666585>>, <<0,35294117,647058823>>, <<0,901960784,313725394>>>>,
    <<<<0,866666666,666666585>>, <<0,52941176,470588234>>, <<0,919607843,137254854>>>>,
    <<<<0,866666666,666666585>>, <<0,70588235,294117646>>, <<0,937254901,960784203>>>>,
    <<<<0,866666666,666666585>>, <<0,200000000,11>>, <<1,66666666,666666651>>>>,
    <<<<0,866666666,666666585>>, <<0,299999999,999999988>>, <<1,166666666,666666518>>>>,
    <<<<0,866666666,666666696>>, <<0,0,0>>, <<0,866666666,666666696>>>>,
    <<<<0,866666666,666666696>>, <<0,17647058,823529411>>, <<0,884313725,490196156>>>>,
    <<<<0,866666666,666666696>>, <<0,35294117,647058823>>, <<0,901960784,313725505>>>>,
    <<<<0,866666666,666666696>>, <<0,52941176,470588234>>, <<0,919607843,137254965>>>>,
    <<<<0,866666666,666666696>>, <<0,70588235,294117646>>, <<0,937254901,960784314>>>>,
    <<<<0,866666666,666666696>>, <<0,200000000,11>>, <<1,66666666,666666651>>>>,
    <<<<0,866666666,666666696>>, <<0,299999999,999999988>>, <<1,166666666,666666740>>>>,
    <<<<0,899999999,999999911>>, <<0,0,0>>, <<0,899999999,999999911>>>>,
    <<<<0,899999999,999999911>>, <<0,17647058,823529411>>, <<0,917647058,823529371>>>>,
    <<<<0,899999999,999999911>>, <<0,35294117,647058823>>, <<0,935294117,647058720>>>>,
    <<<<0,899999999,999999911>>, <<0,52941176,470588234>>, <<0,952941176,470588180>>>>,
    <<<<0,899999999,999999911>>, <<0,66666666,666666665>>, <<0,966666666,666666563>>>>,
    <<<<0,899999999,999999911>>, <<0,70588235,294117646>>, <<0,970588235,294117529>>>>,
    <<<<0,899999999,999999911>>, <<0,100000000,5>>, <<0,999999999,999999888>>>>,
    <<<<0,899999999,999999911>>, <<0,133333333,333333331>>, <<1,33333333,333333214>>>>,
    <<<<0,899999999,999999911>>, <<0,200000000,11>>, <<1,99999999,999999866>>>>,
    <<<<0,899999999,999999911>>, <<0,266666666,666666662>>, <<1,166666666,666666518>>>>,
    <<<<0,899999999,999999911>>, <<0,299999999,999999988>>, <<1,199999999,999999955>>>>,
    <<<<0,899999999,999999911>>, <<0,300000000,44>>, <<1,199999999,999999955>>>>,
    <<<<0,899999999,999999911>>, <<0,400000000,22>>, <<1,299999999,999999822>>>>,
    <<<<0,899999999,999999911>>, <<0,600000000,88>>, <<1,500000000,0>>>>,
    <<<<0,899999999,999999911>>, <<0,800000000,44>>, <<1,699999999,999999955>>>>,
    <<<<0,900000000,22>>, <<0,0,0>>, <<0,900000000,22>>>>,
    <<<<0,900000000,22>>, <<0,17647058,823529411>>, <<0,917647058,823529482>>>>,
    <<<<0,900000000,22>>, <<0,35294117,647058823>>, <<0,935294117,647058831>>>>,
    <<<<0,900000000,22>>, <<0,52941176,470588234>>, <<0,952941176,470588291>>>>,
    <<<<0,900000000,22>>, <<0,70588235,294117646>>, <<0,970588235,294117640>>>>,
    <<<<0,900000000,22>>, <<0,200000000,11>>, <<1,100000000,88>>>>,
    <<<<0,900000000,22>>, <<0,299999999,999999988>>, <<1,199999999,999999955>>>>,
    <<<<0,900000000,133>>, <<0,0,0>>, <<0,900000000,133>>>>,
    <<<<0,900000000,133>>, <<0,17647058,823529411>>, <<0,917647058,823529593>>>>,
    <<<<0,900000000,133>>, <<0,35294117,647058823>>, <<0,935294117,647058942>>>>,
    <<<<0,900000000,133>>, <<0,52941176,470588234>>, <<0,952941176,470588402>>>>,
    <<<<0,900000000,133>>, <<0,70588235,294117646>>, <<0,970588235,294117751>>>>,
    <<<<0,900000000,133>>, <<0,200000000,11>>, <<1,100000000,88>>>>,
    <<<<0,900000000,133>>, <<0,299999999,999999988>>, <<1,200000000,177>>>>,
    <<<<0,933333333,333333237>>, <<0,0,0>>, <<0,933333333,333333237>>>>,
    <<<<0,933333333,333333237>>, <<0,17647058,823529411>>, <<0,950980392,156862697>>>>,
    <<<<0,933333333,333333237>>, <<0,35294117,647058823>>, <<0,968627450,980392046>>>>,
    <<<<0,933333333,333333237>>, <<0,52941176,470588234>>, <<0,986274509,803921506>>>>,
    <<<<0,933333333,333333237>>, <<0,70588235,294117646>>, <<1,3921568,627450966>>>>,
    <<<<0,933333333,333333237>>, <<0,200000000,11>>, <<1,133333333,333333303>>>>,
    <<<<0,933333333,333333237>>, <<0,299999999,999999988>>, <<1,233333333,333333170>>>>,
    <<<<0,966666666,666666563>>, <<0,0,0>>, <<0,966666666,666666563>>>>,
    <<<<0,966666666,666666563>>, <<0,17647058,823529411>>, <<0,984313725,490196023>>>>,
    <<<<0,966666666,666666563>>, <<0,35294117,647058823>>, <<1,1960784,313725483>>>>,
    <<<<0,966666666,666666563>>, <<0,52941176,470588234>>, <<1,19607843,137254832>>>>,
    <<<<0,966666666,666666563>>, <<0,70588235,294117646>>, <<1,37254901,960784181>>>>,
    <<<<0,966666666,666666563>>, <<0,200000000,11>>, <<1,166666666,666666518>>>>,
    <<<<0,966666666,666666563>>, <<0,299999999,999999988>>, <<1,266666666,666666607>>>>,
    <<<<0,999999999,999999888>>, <<0,0,0>>, <<0,999999999,999999888>>>>,
    <<<<0,999999999,999999888>>, <<0,17647058,823529411>>, <<1,17647058,823529349>>>>,
    <<<<0,999999999,999999888>>, <<0,35294117,647058823>>, <<1,35294117,647058698>>>>,
    <<<<0,999999999,999999888>>, <<0,52941176,470588234>>, <<1,52941176,470588047>>>>,
    <<<<0,999999999,999999888>>, <<0,70588235,294117646>>, <<1,70588235,294117618>>>>,
    <<<<0,999999999,999999888>>, <<0,200000000,11>>, <<1,199999999,999999955>>>>,
    <<<<0,999999999,999999888>>, <<0,299999999,999999988>>, <<1,299999999,999999822>>>>,
    <<<<1,0,0>>, <<0,0,0>>, <<1,0,0>>>>,
    <<<<1,0,0>>, <<0,16666666,666666666>>, <<1,16666666,666666607>>>>,
    <<<<1,0,0>>, <<0,17647058,823529411>>, <<1,17647058,823529349>>>>,
    <<<<1,0,0>>, <<0,33333333,333333332>>, <<1,33333333,333333436>>>>,
    <<<<1,0,0>>, <<0,35294117,647058823>>, <<1,35294117,647058920>>>>,
    <<<<1,0,0>>, <<0,49999999,999999995>>, <<1,50000000,44>>>>,
    <<<<1,0,0>>, <<0,52941176,470588234>>, <<1,52941176,470588269>>>>,
    <<<<1,0,0>>, <<0,66666666,666666665>>, <<1,66666666,666666651>>>>,
    <<<<1,0,0>>, <<0,70588235,294117646>>, <<1,70588235,294117618>>>>,
    <<<<1,0,0>>, <<0,83333333,333333328>>, <<1,83333333,333333259>>>>,
    <<<<1,0,0>>, <<0,99999999,999999991>>, <<1,100000000,88>>>>,
    <<<<1,0,0>>, <<0,116666666,666666668>>, <<1,116666666,666666696>>>>,
    <<<<1,0,0>>, <<0,133333333,333333331>>, <<1,133333333,333333303>>>>,
    <<<<1,0,0>>, <<0,149999999,999999994>>, <<1,149999999,999999911>>>>,
    <<<<1,0,0>>, <<0,166666666,666666657>>, <<1,166666666,666666740>>>>,
    <<<<1,0,0>>, <<0,183333333,333333348>>, <<1,183333333,333333348>>>>,
    <<<<1,0,0>>, <<0,199999999,999999983>>, <<1,199999999,999999955>>>>,
    <<<<1,0,0>>, <<0,200000000,11>>, <<1,199999999,999999955>>>>,
    <<<<1,0,0>>, <<0,216666666,666666646>>, <<1,216666666,666666563>>>>,
    <<<<1,0,0>>, <<0,233333333,333333337>>, <<1,233333333,333333392>>>>,
    <<<<1,0,0>>, <<0,250000000,0>>, <<1,250000000,0>>>>,
    <<<<1,0,0>>, <<0,266666666,666666662>>, <<1,266666666,666666607>>>>,
    <<<<1,0,0>>, <<0,283333333,333333325>>, <<1,283333333,333333214>>>>,
    <<<<1,0,0>>, <<0,299999999,999999988>>, <<1,300000000,44>>>>,
    <<<<1,33333333,333333214>>, <<0,0,0>>, <<1,33333333,333333214>>>>,
    <<<<1,33333333,333333214>>, <<0,17647058,823529411>>, <<1,50980392,156862563>>>>,
    <<<<1,33333333,333333214>>, <<0,35294117,647058823>>, <<1,68627450,980392135>>>>,
    <<<<1,33333333,333333214>>, <<0,52941176,470588234>>, <<1,86274509,803921484>>>>,
    <<<<1,33333333,333333214>>, <<0,70588235,294117646>>, <<1,103921568,627450833>>>>,
    <<<<1,33333333,333333214>>, <<0,200000000,11>>, <<1,233333333,333333170>>>>,
    <<<<1,33333333,333333214>>, <<0,299999999,999999988>>, <<1,333333333,333333259>>>>,
    <<<<1,66666666,666666651>>, <<0,0,0>>, <<1,66666666,666666651>>>>,
    <<<<1,66666666,666666651>>, <<0,17647058,823529411>>, <<1,84313725,490196000>>>>,
    <<<<1,66666666,666666651>>, <<0,35294117,647058823>>, <<1,101960784,313725572>>>>,
    <<<<1,66666666,666666651>>, <<0,52941176,470588234>>, <<1,119607843,137254921>>>>,
    <<<<1,66666666,666666651>>, <<0,70588235,294117646>>, <<1,137254901,960784270>>>>,
    <<<<1,66666666,666666651>>, <<0,200000000,11>>, <<1,266666666,666666607>>>>,
    <<<<1,66666666,666666651>>, <<0,299999999,999999988>>, <<1,366666666,666666696>>>>,
    <<<<1,99999999,999999866>>, <<0,0,0>>, <<1,99999999,999999866>>>>,
    <<<<1,99999999,999999866>>, <<0,17647058,823529411>>, <<1,117647058,823529215>>>>,
    <<<<1,99999999,999999866>>, <<0,35294117,647058823>>, <<1,135294117,647058786>>>>,
    <<<<1,99999999,999999866>>, <<0,52941176,470588234>>, <<1,152941176,470588136>>>>,
    <<<<1,99999999,999999866>>, <<0,70588235,294117646>>, <<1,170588235,294117485>>>>,
    <<<<1,99999999,999999866>>, <<0,200000000,11>>, <<1,299999999,999999822>>>>,
    <<<<1,99999999,999999866>>, <<0,299999999,999999988>>, <<1,399999999,999999911>>>>,
    <<<<1,100000000,88>>, <<0,0,0>>, <<1,100000000,88>>>>,
    <<<<1,100000000,88>>, <<0,17647058,823529411>>, <<1,117647058,823529437>>>>,
    <<<<1,100000000,88>>, <<0,35294117,647058823>>, <<1,135294117,647059009>>>>,
    <<<<1,100000000,88>>, <<0,52941176,470588234>>, <<1,152941176,470588358>>>>,
    <<<<1,100000000,88>>, <<0,70588235,294117646>>, <<1,170588235,294117707>>>>,
    <<<<1,100000000,88>>, <<0,200000000,11>>, <<1,300000000,44>>>>,
    <<<<1,100000000,88>>, <<0,299999999,999999988>>, <<1,400000000,133>>>>,
    <<<<1,166666666,666666518>>, <<0,0,0>>, <<1,166666666,666666518>>>>,
    <<<<1,166666666,666666518>>, <<0,17647058,823529411>>, <<1,184313725,490195867>>>>,
    <<<<1,166666666,666666518>>, <<0,35294117,647058823>>, <<1,201960784,313725438>>>>,
    <<<<1,166666666,666666518>>, <<0,52941176,470588234>>, <<1,219607843,137254787>>>>,
    <<<<1,166666666,666666518>>, <<0,70588235,294117646>>, <<1,237254901,960784136>>>>,
    <<<<1,166666666,666666518>>, <<0,200000000,11>>, <<1,366666666,666666474>>>>,
    <<<<1,166666666,666666518>>, <<0,299999999,999999988>>, <<1,466666666,666666563>>>>,
    <<<<1,199999999,999999955>>, <<0,0,0>>, <<1,199999999,999999955>>>>,
    <<<<1,199999999,999999955>>, <<0,17647058,823529411>>, <<1,217647058,823529304>>>>,
    <<<<1,199999999,999999955>>, <<0,35294117,647058823>>, <<1,235294117,647058875>>>>,
    <<<<1,199999999,999999955>>, <<0,52941176,470588234>>, <<1,252941176,470588224>>>>,
    <<<<1,199999999,999999955>>, <<0,66666666,666666665>>, <<1,266666666,666666607>>>>,
    <<<<1,199999999,999999955>>, <<0,70588235,294117646>>, <<1,270588235,294117573>>>>,
    <<<<1,199999999,999999955>>, <<0,100000000,5>>, <<1,300000000,44>>>>,
    <<<<1,199999999,999999955>>, <<0,133333333,333333331>>, <<1,333333333,333333259>>>>,
    <<<<1,199999999,999999955>>, <<0,200000000,11>>, <<1,399999999,999999911>>>>,
    <<<<1,199999999,999999955>>, <<0,266666666,666666662>>, <<1,466666666,666666563>>>>,
    <<<<1,199999999,999999955>>, <<0,299999999,999999988>>, <<1,500000000,0>>>>,
    <<<<1,199999999,999999955>>, <<0,300000000,44>>, <<1,500000000,0>>>>,
    <<<<1,199999999,999999955>>, <<0,400000000,22>>, <<1,600000000,88>>>>,
    <<<<1,199999999,999999955>>, <<0,600000000,88>>, <<1,800000000,44>>>>,
    <<<<1,199999999,999999955>>, <<0,800000000,44>>, <<2,0,0>>>>,
    <<<<1,200000000,177>>, <<0,0,0>>, <<1,200000000,177>>>>,
    <<<<1,200000000,177>>, <<0,17647058,823529411>>, <<1,217647058,823529526>>>>,
    <<<<1,200000000,177>>, <<0,35294117,647058823>>, <<1,235294117,647059097>>>>,
    <<<<1,200000000,177>>, <<0,52941176,470588234>>, <<1,252941176,470588446>>>>,
    <<<<1,200000000,177>>, <<0,70588235,294117646>>, <<1,270588235,294117795>>>>,
    <<<<1,200000000,177>>, <<0,200000000,11>>, <<1,400000000,133>>>>,
    <<<<1,200000000,177>>, <<0,299999999,999999988>>, <<1,500000000,222>>>>,
    <<<<1,266666666,666666607>>, <<0,0,0>>, <<1,266666666,666666607>>>>,
    <<<<1,266666666,666666607>>, <<0,17647058,823529411>>, <<1,284313725,490195956>>>>,
    <<<<1,266666666,666666607>>, <<0,35294117,647058823>>, <<1,301960784,313725527>>>>,
    <<<<1,266666666,666666607>>, <<0,52941176,470588234>>, <<1,319607843,137254876>>>>,
    <<<<1,266666666,666666607>>, <<0,70588235,294117646>>, <<1,337254901,960784225>>>>,
    <<<<1,266666666,666666607>>, <<0,200000000,11>>, <<1,466666666,666666563>>>>,
    <<<<1,266666666,666666607>>, <<0,299999999,999999988>>, <<1,566666666,666666651>>>>,
    <<<<1,299999999,999999822>>, <<0,0,0>>, <<1,299999999,999999822>>>>,
    <<<<1,299999999,999999822>>, <<0,17647058,823529411>>, <<1,317647058,823529171>>>>,
    <<<<1,299999999,999999822>>, <<0,35294117,647058823>>, <<1,335294117,647058742>>>>,
    <<<<1,299999999,999999822>>, <<0,52941176,470588234>>, <<1,352941176,470588091>>>>,
    <<<<1,299999999,999999822>>, <<0,70588235,294117646>>, <<1,370588235,294117440>>>>,
    <<<<1,299999999,999999822>>, <<0,200000000,11>>, <<1,499999999,999999777>>>>,
    <<<<1,299999999,999999822>>, <<0,299999999,999999988>>, <<1,599999999,999999866>>>>,
    <<<<1,300000000,44>>, <<0,0,0>>, <<1,300000000,44>>>>,
    <<<<1,300000000,44>>, <<0,17647058,823529411>>, <<1,317647058,823529393>>>>,
    <<<<1,300000000,44>>, <<0,35294117,647058823>>, <<1,335294117,647058964>>>>,
    <<<<1,300000000,44>>, <<0,52941176,470588234>>, <<1,352941176,470588313>>>>,
    <<<<1,300000000,44>>, <<0,70588235,294117646>>, <<1,370588235,294117662>>>>,
    <<<<1,300000000,44>>, <<0,200000000,11>>, <<1,500000000,0>>>>,
    <<<<1,300000000,44>>, <<0,299999999,999999988>>, <<1,600000000,88>>>>,
    <<<<1,333333333,333333259>>, <<0,0,0>>, <<1,333333333,333333259>>>>,
    <<<<1,333333333,333333259>>, <<0,16666666,666666666>>, <<1,349999999,999999866>>>>,
    <<<<1,333333333,333333259>>, <<0,17647058,823529411>>, <<1,350980392,156862608>>>>,
    <<<<1,333333333,333333259>>, <<0,33333333,333333332>>, <<1,366666666,666666696>>>>,
    <<<<1,333333333,333333259>>, <<0,35294117,647058823>>, <<1,368627450,980392179>>>>,
    <<<<1,333333333,333333259>>, <<0,49999999,999999995>>, <<1,383333333,333333303>>>>,
    <<<<1,333333333,333333259>>, <<0,52941176,470588234>>, <<1,386274509,803921528>>>>,
    <<<<1,333333333,333333259>>, <<0,66666666,666666665>>, <<1,399999999,999999911>>>>,
    <<<<1,333333333,333333259>>, <<0,70588235,294117646>>, <<1,403921568,627450877>>>>,
    <<<<1,333333333,333333259>>, <<0,83333333,333333328>>, <<1,416666666,666666518>>>>,
    <<<<1,333333333,333333259>>, <<0,99999999,999999991>>, <<1,433333333,333333348>>>>,
    <<<<1,333333333,333333259>>, <<0,116666666,666666668>>, <<1,449999999,999999955>>>>,
    <<<<1,333333333,333333259>>, <<0,133333333,333333331>>, <<1,466666666,666666563>>>>,
    <<<<1,333333333,333333259>>, <<0,149999999,999999994>>, <<1,483333333,333333170>>>>,
    <<<<1,333333333,333333259>>, <<0,166666666,666666657>>, <<1,500000000,0>>>>,
    <<<<1,333333333,333333259>>, <<0,183333333,333333348>>, <<1,516666666,666666607>>>>,
    <<<<1,333333333,333333259>>, <<0,199999999,999999983>>, <<1,533333333,333333214>>>>,
    <<<<1,333333333,333333259>>, <<0,200000000,11>>, <<1,533333333,333333214>>>>,
    <<<<1,333333333,333333259>>, <<0,216666666,666666646>>, <<1,549999999,999999822>>>>,
    <<<<1,333333333,333333259>>, <<0,233333333,333333337>>, <<1,566666666,666666651>>>>,
    <<<<1,333333333,333333259>>, <<0,250000000,0>>, <<1,583333333,333333259>>>>,
    <<<<1,333333333,333333259>>, <<0,266666666,666666662>>, <<1,599999999,999999866>>>>,
    <<<<1,333333333,333333259>>, <<0,283333333,333333325>>, <<1,616666666,666666696>>>>,
    <<<<1,333333333,333333259>>, <<0,299999999,999999988>>, <<1,633333333,333333303>>>>,
    <<<<1,399999999,999999911>>, <<0,0,0>>, <<1,399999999,999999911>>>>,
    <<<<1,399999999,999999911>>, <<0,17647058,823529411>>, <<1,417647058,823529260>>>>,
    <<<<1,399999999,999999911>>, <<0,35294117,647058823>>, <<1,435294117,647058831>>>>,
    <<<<1,399999999,999999911>>, <<0,52941176,470588234>>, <<1,452941176,470588180>>>>,
    <<<<1,399999999,999999911>>, <<0,70588235,294117646>>, <<1,470588235,294117529>>>>,
    <<<<1,399999999,999999911>>, <<0,200000000,11>>, <<1,599999999,999999866>>>>,
    <<<<1,399999999,999999911>>, <<0,299999999,999999988>>, <<1,699999999,999999955>>>>,
    <<<<1,466666666,666666563>>, <<0,0,0>>, <<1,466666666,666666563>>>>,
    <<<<1,466666666,666666563>>, <<0,17647058,823529411>>, <<1,484313725,490195912>>>>,
    <<<<1,466666666,666666563>>, <<0,35294117,647058823>>, <<1,501960784,313725483>>>>,
    <<<<1,466666666,666666563>>, <<0,52941176,470588234>>, <<1,519607843,137254832>>>>,
    <<<<1,466666666,666666563>>, <<0,70588235,294117646>>, <<1,537254901,960784181>>>>,
    <<<<1,466666666,666666563>>, <<0,200000000,11>>, <<1,666666666,666666518>>>>,
    <<<<1,466666666,666666563>>, <<0,299999999,999999988>>, <<1,766666666,666666607>>>>,
    <<<<1,500000000,0>>, <<0,0,0>>, <<1,500000000,0>>>>,
    <<<<1,500000000,0>>, <<0,16666666,666666666>>, <<1,516666666,666666607>>>>,
    <<<<1,500000000,0>>, <<0,17647058,823529411>>, <<1,517647058,823529349>>>>,
    <<<<1,500000000,0>>, <<0,33333333,333333332>>, <<1,533333333,333333436>>>>,
    <<<<1,500000000,0>>, <<0,35294117,647058823>>, <<1,535294117,647058920>>>>,
    <<<<1,500000000,0>>, <<0,49999999,999999995>>, <<1,550000000,44>>>>,
    <<<<1,500000000,0>>, <<0,52941176,470588234>>, <<1,552941176,470588269>>>>,
    <<<<1,500000000,0>>, <<0,66666666,666666665>>, <<1,566666666,666666651>>>>,
    <<<<1,500000000,0>>, <<0,70588235,294117646>>, <<1,570588235,294117618>>>>,
    <<<<1,500000000,0>>, <<0,83333333,333333328>>, <<1,583333333,333333259>>>>,
    <<<<1,500000000,0>>, <<0,99999999,999999991>>, <<1,600000000,88>>>>,
    <<<<1,500000000,0>>, <<0,116666666,666666668>>, <<1,616666666,666666696>>>>,
    <<<<1,500000000,0>>, <<0,133333333,333333331>>, <<1,633333333,333333303>>>>,
    <<<<1,500000000,0>>, <<0,149999999,999999994>>, <<1,649999999,999999911>>>>,
    <<<<1,500000000,0>>, <<0,166666666,666666657>>, <<1,666666666,666666740>>>>,
    <<<<1,500000000,0>>, <<0,183333333,333333348>>, <<1,683333333,333333348>>>>,
    <<<<1,500000000,0>>, <<0,199999999,999999983>>, <<1,699999999,999999955>>>>,
    <<<<1,500000000,0>>, <<0,200000000,11>>, <<1,699999999,999999955>>>>,
    <<<<1,500000000,0>>, <<0,216666666,666666646>>, <<1,716666666,666666563>>>>,
    <<<<1,500000000,0>>, <<0,233333333,333333337>>, <<1,733333333,333333392>>>>,
    <<<<1,500000000,0>>, <<0,250000000,0>>, <<1,750000000,0>>>>,
    <<<<1,500000000,0>>, <<0,266666666,666666662>>, <<1,766666666,666666607>>>>,
    <<<<1,500000000,0>>, <<0,283333333,333333325>>, <<1,783333333,333333214>>>>,
    <<<<1,500000000,0>>, <<0,299999999,999999988>>, <<1,800000000,44>>>>,
    <<<<1,600000000,88>>, <<0,0,0>>, <<1,600000000,88>>>>,
    <<<<1,600000000,88>>, <<0,17647058,823529411>>, <<1,617647058,823529437>>>>,
    <<<<1,600000000,88>>, <<0,35294117,647058823>>, <<1,635294117,647059009>>>>,
    <<<<1,600000000,88>>, <<0,52941176,470588234>>, <<1,652941176,470588358>>>>,
    <<<<1,600000000,88>>, <<0,70588235,294117646>>, <<1,670588235,294117707>>>>,
    <<<<1,600000000,88>>, <<0,200000000,11>>, <<1,800000000,44>>>>,
    <<<<1,600000000,88>>, <<0,299999999,999999988>>, <<1,900000000,133>>>>,
    <<<<1,699999999,999999955>>, <<0,0,0>>, <<1,699999999,999999955>>>>,
    <<<<1,699999999,999999955>>, <<0,17647058,823529411>>, <<1,717647058,823529304>>>>,
    <<<<1,699999999,999999955>>, <<0,35294117,647058823>>, <<1,735294117,647058875>>>>,
    <<<<1,699999999,999999955>>, <<0,52941176,470588234>>, <<1,752941176,470588224>>>>,
    <<<<1,699999999,999999955>>, <<0,70588235,294117646>>, <<1,770588235,294117573>>>>,
    <<<<1,699999999,999999955>>, <<0,200000000,11>>, <<1,899999999,999999911>>>>,
    <<<<1,699999999,999999955>>, <<0,299999999,999999988>>, <<2,0,0>>>>,
    <<<<1,799999999,999999822>>, <<0,0,0>>, <<1,799999999,999999822>>>>,
    <<<<1,799999999,999999822>>, <<0,17647058,823529411>>, <<1,817647058,823529171>>>>,
    <<<<1,799999999,999999822>>, <<0,35294117,647058823>>, <<1,835294117,647058742>>>>,
    <<<<1,799999999,999999822>>, <<0,52941176,470588234>>, <<1,852941176,470588091>>>>,
    <<<<1,799999999,999999822>>, <<0,66666666,666666665>>, <<1,866666666,666666474>>>>,
    <<<<1,799999999,999999822>>, <<0,70588235,294117646>>, <<1,870588235,294117440>>>>,
    <<<<1,799999999,999999822>>, <<0,100000000,5>>, <<1,899999999,999999911>>>>,
    <<<<1,799999999,999999822>>, <<0,133333333,333333331>>, <<1,933333333,333333126>>>>,
    <<<<1,799999999,999999822>>, <<0,200000000,11>>, <<1,999999999,999999777>>>>,
    <<<<1,799999999,999999822>>, <<0,266666666,666666662>>, <<2,66666666,666666429>>>>,
    <<<<1,799999999,999999822>>, <<0,299999999,999999988>>, <<2,99999999,999999644>>>>,
    <<<<1,799999999,999999822>>, <<0,300000000,44>>, <<2,99999999,999999644>>>>,
    <<<<1,799999999,999999822>>, <<0,400000000,22>>, <<2,199999999,999999733>>>>,
    <<<<1,799999999,999999822>>, <<0,600000000,88>>, <<2,399999999,999999911>>>>,
    <<<<1,799999999,999999822>>, <<0,800000000,44>>, <<2,599999999,999999644>>>>,
    <<<<1,800000000,44>>, <<0,0,0>>, <<1,800000000,44>>>>,
    <<<<1,800000000,44>>, <<0,17647058,823529411>>, <<1,817647058,823529393>>>>,
    <<<<1,800000000,44>>, <<0,35294117,647058823>>, <<1,835294117,647058964>>>>,
    <<<<1,800000000,44>>, <<0,52941176,470588234>>, <<1,852941176,470588313>>>>,
    <<<<1,800000000,44>>, <<0,70588235,294117646>>, <<1,870588235,294117662>>>>,
    <<<<1,800000000,44>>, <<0,200000000,11>>, <<2,0,0>>>>,
    <<<<1,800000000,44>>, <<0,299999999,999999988>>, <<2,100000000,88>>>>,
    <<<<1,866666666,666666474>>, <<0,0,0>>, <<1,866666666,666666474>>>>,
    <<<<1,866666666,666666474>>, <<0,17647058,823529411>>, <<1,884313725,490195823>>>>,
    <<<<1,866666666,666666474>>, <<0,35294117,647058823>>, <<1,901960784,313725394>>>>,
    <<<<1,866666666,666666474>>, <<0,52941176,470588234>>, <<1,919607843,137254743>>>>,
    <<<<1,866666666,666666474>>, <<0,70588235,294117646>>, <<1,937254901,960784092>>>>,
    <<<<1,866666666,666666474>>, <<0,200000000,11>>, <<2,66666666,666666429>>>>,
    <<<<1,866666666,666666474>>, <<0,299999999,999999988>>, <<2,166666666,666666518>>>>,
    <<<<1,899999999,999999911>>, <<0,0,0>>, <<1,899999999,999999911>>>>,
    <<<<1,899999999,999999911>>, <<0,17647058,823529411>>, <<1,917647058,823529260>>>>,
    <<<<1,899999999,999999911>>, <<0,35294117,647058823>>, <<1,935294117,647058831>>>>,
    <<<<1,899999999,999999911>>, <<0,52941176,470588234>>, <<1,952941176,470588180>>>>,
    <<<<1,899999999,999999911>>, <<0,70588235,294117646>>, <<1,970588235,294117529>>>>,
    <<<<1,899999999,999999911>>, <<0,200000000,11>>, <<2,100000000,88>>>>,
    <<<<1,899999999,999999911>>, <<0,299999999,999999988>>, <<2,199999999,999999733>>>>,
    <<<<1,933333333,333333126>>, <<0,0,0>>, <<1,933333333,333333126>>>>,
    <<<<1,933333333,333333126>>, <<0,17647058,823529411>>, <<1,950980392,156862475>>>>,
    <<<<1,933333333,333333126>>, <<0,35294117,647058823>>, <<1,968627450,980392046>>>>,
    <<<<1,933333333,333333126>>, <<0,52941176,470588234>>, <<1,986274509,803921395>>>>,
    <<<<1,933333333,333333126>>, <<0,70588235,294117646>>, <<2,3921568,627450966>>>>,
    <<<<1,933333333,333333126>>, <<0,200000000,11>>, <<2,133333333,333333303>>>>,
    <<<<1,933333333,333333126>>, <<0,299999999,999999988>>, <<2,233333333,333332948>>>>,
    <<<<1,999999999,999999777>>, <<0,0,0>>, <<1,999999999,999999777>>>>,
    <<<<1,999999999,999999777>>, <<0,17647058,823529411>>, <<2,17647058,823529349>>>>,
    <<<<1,999999999,999999777>>, <<0,35294117,647058823>>, <<2,35294117,647058698>>>>,
    <<<<1,999999999,999999777>>, <<0,52941176,470588234>>, <<2,52941176,470588047>>>>,
    <<<<1,999999999,999999777>>, <<0,70588235,294117646>>, <<2,70588235,294117396>>>>,
    <<<<1,999999999,999999777>>, <<0,200000000,11>>, <<2,199999999,999999733>>>>,
    <<<<1,999999999,999999777>>, <<0,299999999,999999988>>, <<2,299999999,999999822>>>>,
    <<<<2,0,0>>, <<0,0,0>>, <<2,0,0>>>>,
    <<<<2,0,0>>, <<0,16666666,666666666>>, <<2,16666666,666666607>>>>,
    <<<<2,0,0>>, <<0,17647058,823529411>>, <<2,17647058,823529349>>>>,
    <<<<2,0,0>>, <<0,33333333,333333332>>, <<2,33333333,333333214>>>>,
    <<<<2,0,0>>, <<0,35294117,647058823>>, <<2,35294117,647058698>>>>,
    <<<<2,0,0>>, <<0,49999999,999999995>>, <<2,49999999,999999822>>>>,
    <<<<2,0,0>>, <<0,52941176,470588234>>, <<2,52941176,470588047>>>>,
    <<<<2,0,0>>, <<0,66666666,666666665>>, <<2,66666666,666666873>>>>,
    <<<<2,0,0>>, <<0,70588235,294117646>>, <<2,70588235,294117840>>>>,
    <<<<2,0,0>>, <<0,83333333,333333328>>, <<2,83333333,333333481>>>>,
    <<<<2,0,0>>, <<0,99999999,999999991>>, <<2,100000000,88>>>>,
    <<<<2,0,0>>, <<0,116666666,666666668>>, <<2,116666666,666666696>>>>,
    <<<<2,0,0>>, <<0,133333333,333333331>>, <<2,133333333,333333303>>>>,
    <<<<2,0,0>>, <<0,149999999,999999994>>, <<2,149999999,999999911>>>>,
    <<<<2,0,0>>, <<0,166666666,666666657>>, <<2,166666666,666666518>>>>,
    <<<<2,0,0>>, <<0,183333333,333333348>>, <<2,183333333,333333570>>>>,
    <<<<2,0,0>>, <<0,199999999,999999983>>, <<2,200000000,177>>>>,
    <<<<2,0,0>>, <<0,200000000,11>>, <<2,200000000,177>>>>,
    <<<<2,0,0>>, <<0,216666666,666666646>>, <<2,216666666,666666785>>>>,
    <<<<2,0,0>>, <<0,233333333,333333337>>, <<2,233333333,333333392>>>>,
    <<<<2,0,0>>, <<0,250000000,0>>, <<2,250000000,0>>>>,
    <<<<2,0,0>>, <<0,266666666,666666662>>, <<2,266666666,666666607>>>>,
    <<<<2,0,0>>, <<0,283333333,333333325>>, <<2,283333333,333333214>>>>,
    <<<<2,0,0>>, <<0,299999999,999999988>>, <<2,299999999,999999822>>>>,
    <<<<2,66666666,666666429>>, <<0,0,0>>, <<2,66666666,666666429>>>>,
    <<<<2,66666666,666666429>>, <<0,17647058,823529411>>, <<2,84313725,490195778>>>>,
    <<<<2,66666666,666666429>>, <<0,35294117,647058823>>, <<2,101960784,313725127>>>>,
    <<<<2,66666666,666666429>>, <<0,52941176,470588234>>, <<2,119607843,137254477>>>>,
    <<<<2,66666666,666666429>>, <<0,70588235,294117646>>, <<2,137254901,960784270>>>>,
    <<<<2,66666666,666666429>>, <<0,200000000,11>>, <<2,266666666,666666607>>>>,
    <<<<2,66666666,666666429>>, <<0,299999999,999999988>>, <<2,366666666,666666252>>>>,
    <<<<2,99999999,999999644>>, <<0,0,0>>, <<2,99999999,999999644>>>>,
    <<<<2,99999999,999999644>>, <<0,17647058,823529411>>, <<2,117647058,823528993>>>>,
    <<<<2,99999999,999999644>>, <<0,35294117,647058823>>, <<2,135294117,647058342>>>>,
    <<<<2,99999999,999999644>>, <<0,52941176,470588234>>, <<2,152941176,470587691>>>>,
    <<<<2,99999999,999999644>>, <<0,70588235,294117646>>, <<2,170588235,294117485>>>>,
    <<<<2,99999999,999999644>>, <<0,200000000,11>>, <<2,299999999,999999822>>>>,
    <<<<2,99999999,999999644>>, <<0,299999999,999999988>>, <<2,399999999,999999467>>>>,
    <<<<2,199999999,999999733>>, <<0,0,0>>, <<2,199999999,999999733>>>>,
    <<<<2,199999999,999999733>>, <<0,17647058,823529411>>, <<2,217647058,823529082>>>>,
    <<<<2,199999999,999999733>>, <<0,35294117,647058823>>, <<2,235294117,647058431>>>>,
    <<<<2,199999999,999999733>>, <<0,52941176,470588234>>, <<2,252941176,470587780>>>>,
    <<<<2,199999999,999999733>>, <<0,70588235,294117646>>, <<2,270588235,294117573>>>>,
    <<<<2,199999999,999999733>>, <<0,200000000,11>>, <<2,399999999,999999911>>>>,
    <<<<2,199999999,999999733>>, <<0,299999999,999999988>>, <<2,499999999,999999555>>>>,
    <<<<2,399999999,999999911>>, <<0,0,0>>, <<2,399999999,999999911>>>>,
    <<<<2,399999999,999999911>>, <<0,17647058,823529411>>, <<2,417647058,823529260>>>>,
    <<<<2,399999999,999999911>>, <<0,35294117,647058823>>, <<2,435294117,647058609>>>>,
    <<<<2,399999999,999999911>>, <<0,52941176,470588234>>, <<2,452941176,470587958>>>>,
    <<<<2,399999999,999999911>>, <<0,66666666,666666665>>, <<2,466666666,666666785>>>>,
    <<<<2,399999999,999999911>>, <<0,70588235,294117646>>, <<2,470588235,294117751>>>>,
    <<<<2,399999999,999999911>>, <<0,100000000,5>>, <<2,500000000,0>>>>,
    <<<<2,399999999,999999911>>, <<0,133333333,333333331>>, <<2,533333333,333333214>>>>,
    <<<<2,399999999,999999911>>, <<0,200000000,11>>, <<2,600000000,88>>>>,
    <<<<2,399999999,999999911>>, <<0,266666666,666666662>>, <<2,666666666,666666518>>>>,
    <<<<2,399999999,999999911>>, <<0,299999999,999999988>>, <<2,699999999,999999733>>>>,
    <<<<2,399999999,999999911>>, <<0,300000000,44>>, <<2,700000000,177>>>>,
    <<<<2,399999999,999999911>>, <<0,400000000,22>>, <<2,799999999,999999822>>>>,
    <<<<2,399999999,999999911>>, <<0,600000000,88>>, <<3,0,0>>>>,
    <<<<2,399999999,999999911>>, <<0,800000000,44>>, <<3,200000000,177>>>>,
    <<<<2,466666666,666666785>>, <<0,0,0>>, <<2,466666666,666666785>>>>,
    <<<<2,466666666,666666785>>, <<0,17647058,823529411>>, <<2,484313725,490196134>>>>,
    <<<<2,466666666,666666785>>, <<0,35294117,647058823>>, <<2,501960784,313725483>>>>,
    <<<<2,466666666,666666785>>, <<0,52941176,470588234>>, <<2,519607843,137254832>>>>,
    <<<<2,466666666,666666785>>, <<0,70588235,294117646>>, <<2,537254901,960784625>>>>,
    <<<<2,466666666,666666785>>, <<0,200000000,11>>, <<2,666666666,666666962>>>>,
    <<<<2,466666666,666666785>>, <<0,299999999,999999988>>, <<2,766666666,666666607>>>>,
    <<<<2,500000000,0>>, <<0,0,0>>, <<2,500000000,0>>>>,
    <<<<2,500000000,0>>, <<0,17647058,823529411>>, <<2,517647058,823529349>>>>,
    <<<<2,500000000,0>>, <<0,35294117,647058823>>, <<2,535294117,647058698>>>>,
    <<<<2,500000000,0>>, <<0,52941176,470588234>>, <<2,552941176,470588047>>>>,
    <<<<2,500000000,0>>, <<0,70588235,294117646>>, <<2,570588235,294117840>>>>,
    <<<<2,500000000,0>>, <<0,200000000,11>>, <<2,700000000,177>>>>,
    <<<<2,500000000,0>>, <<0,299999999,999999988>>, <<2,799999999,999999822>>>>,
    <<<<2,533333333,333333214>>, <<0,0,0>>, <<2,533333333,333333214>>>>,
    <<<<2,533333333,333333214>>, <<0,17647058,823529411>>, <<2,550980392,156862563>>>>,
    <<<<2,533333333,333333214>>, <<0,35294117,647058823>>, <<2,568627450,980391913>>>>,
    <<<<2,533333333,333333214>>, <<0,52941176,470588234>>, <<2,586274509,803921262>>>>,
    <<<<2,533333333,333333214>>, <<0,70588235,294117646>>, <<2,603921568,627451055>>>>,
    <<<<2,533333333,333333214>>, <<0,200000000,11>>, <<2,733333333,333333392>>>>,
    <<<<2,533333333,333333214>>, <<0,299999999,999999988>>, <<2,833333333,333333037>>>>,
    <<<<2,599999999,999999644>>, <<0,0,0>>, <<2,599999999,999999644>>>>,
    <<<<2,599999999,999999644>>, <<0,17647058,823529411>>, <<2,617647058,823528993>>>>,
    <<<<2,599999999,999999644>>, <<0,35294117,647058823>>, <<2,635294117,647058342>>>>,
    <<<<2,599999999,999999644>>, <<0,52941176,470588234>>, <<2,652941176,470587691>>>>,
    <<<<2,599999999,999999644>>, <<0,70588235,294117646>>, <<2,670588235,294117485>>>>,
    <<<<2,599999999,999999644>>, <<0,200000000,11>>, <<2,799999999,999999822>>>>,
    <<<<2,599999999,999999644>>, <<0,299999999,999999988>>, <<2,899999999,999999467>>>>,
    <<<<2,600000000,88>>, <<0,0,0>>, <<2,600000000,88>>>>,
    <<<<2,600000000,88>>, <<0,17647058,823529411>>, <<2,617647058,823529437>>>>,
    <<<<2,600000000,88>>, <<0,35294117,647058823>>, <<2,635294117,647058786>>>>,
    <<<<2,600000000,88>>, <<0,52941176,470588234>>, <<2,652941176,470588136>>>>,
    <<<<2,600000000,88>>, <<0,70588235,294117646>>, <<2,670588235,294117929>>>>,
    <<<<2,600000000,88>>, <<0,200000000,11>>, <<2,800000000,266>>>>,
    <<<<2,600000000,88>>, <<0,299999999,999999988>>, <<2,899999999,999999911>>>>,
    <<<<2,666666666,666666518>>, <<0,0,0>>, <<2,666666666,666666518>>>>,
    <<<<2,666666666,666666518>>, <<0,17647058,823529411>>, <<2,684313725,490195867>>>>,
    <<<<2,666666666,666666518>>, <<0,35294117,647058823>>, <<2,701960784,313725216>>>>,
    <<<<2,666666666,666666518>>, <<0,52941176,470588234>>, <<2,719607843,137254565>>>>,
    <<<<2,666666666,666666518>>, <<0,70588235,294117646>>, <<2,737254901,960784359>>>>,
    <<<<2,666666666,666666518>>, <<0,200000000,11>>, <<2,866666666,666666696>>>>,
    <<<<2,666666666,666666518>>, <<0,299999999,999999988>>, <<2,966666666,666666341>>>>,
    <<<<2,700000000,177>>, <<0,0,0>>, <<2,700000000,177>>>>,
    <<<<2,700000000,177>>, <<0,17647058,823529411>>, <<2,717647058,823529526>>>>,
    <<<<2,700000000,177>>, <<0,35294117,647058823>>, <<2,735294117,647058875>>>>,
    <<<<2,700000000,177>>, <<0,52941176,470588234>>, <<2,752941176,470588224>>>>,
    <<<<2,700000000,177>>, <<0,70588235,294117646>>, <<2,770588235,294118018>>>>,
    <<<<2,700000000,177>>, <<0,200000000,11>>, <<2,900000000,355>>>>,
    <<<<2,700000000,177>>, <<0,299999999,999999988>>, <<3,0,0>>>>,
    <<<<2,799999999,999999822>>, <<0,0,0>>, <<2,799999999,999999822>>>>,
    <<<<2,799999999,999999822>>, <<0,17647058,823529411>>, <<2,817647058,823529171>>>>,
    <<<<2,799999999,999999822>>, <<0,35294117,647058823>>, <<2,835294117,647058520>>>>,
    <<<<2,799999999,999999822>>, <<0,52941176,470588234>>, <<2,852941176,470587869>>>>,
    <<<<2,799999999,999999822>>, <<0,70588235,294117646>>, <<2,870588235,294117662>>>>,
    <<<<2,799999999,999999822>>, <<0,200000000,11>>, <<3,0,0>>>>,
    <<<<2,799999999,999999822>>, <<0,299999999,999999988>>, <<3,99999999,999999644>>>>,
    <<<<3,0,0>>, <<0,0,0>>, <<3,0,0>>>>,
    <<<<3,0,0>>, <<0,16666666,666666666>>, <<3,16666666,666666607>>>>,
    <<<<3,0,0>>, <<0,17647058,823529411>>, <<3,17647058,823529349>>>>,
    <<<<3,0,0>>, <<0,33333333,333333332>>, <<3,33333333,333333214>>>>,
    <<<<3,0,0>>, <<0,35294117,647058823>>, <<3,35294117,647058698>>>>,
    <<<<3,0,0>>, <<0,49999999,999999995>>, <<3,49999999,999999822>>>>,
    <<<<3,0,0>>, <<0,52941176,470588234>>, <<3,52941176,470588047>>>>,
    <<<<3,0,0>>, <<0,66666666,666666665>>, <<3,66666666,666666873>>>>,
    <<<<3,0,0>>, <<0,70588235,294117646>>, <<3,70588235,294117840>>>>,
    <<<<3,0,0>>, <<0,83333333,333333328>>, <<3,83333333,333333481>>>>,
    <<<<3,0,0>>, <<0,99999999,999999991>>, <<3,100000000,88>>>>,
    <<<<3,0,0>>, <<0,116666666,666666668>>, <<3,116666666,666666696>>>>,
    <<<<3,0,0>>, <<0,133333333,333333331>>, <<3,133333333,333333303>>>>,
    <<<<3,0,0>>, <<0,149999999,999999994>>, <<3,149999999,999999911>>>>,
    <<<<3,0,0>>, <<0,166666666,666666657>>, <<3,166666666,666666518>>>>,
    <<<<3,0,0>>, <<0,183333333,333333348>>, <<3,183333333,333333570>>>>,
    <<<<3,0,0>>, <<0,199999999,999999983>>, <<3,200000000,177>>>>,
    <<<<3,0,0>>, <<0,200000000,11>>, <<3,200000000,177>>>>,
    <<<<3,0,0>>, <<0,216666666,666666646>>, <<3,216666666,666666785>>>>,
    <<<<3,0,0>>, <<0,233333333,333333337>>, <<3,233333333,333333392>>>>,
    <<<<3,0,0>>, <<0,250000000,0>>, <<3,250000000,0>>>>,
    <<<<3,0,0>>, <<0,266666666,666666662>>, <<3,266666666,666666607>>>>,
    <<<<3,0,0>>, <<0,283333333,333333325>>, <<3,283333333,333333214>>>>,
    <<<<3,0,0>>, <<0,299999999,999999988>>, <<3,299999999,999999822>>>>,
    <<<<3,200000000,177>>, <<0,0,0>>, <<3,200000000,177>>>>,
    <<<<3,200000000,177>>, <<0,17647058,823529411>>, <<3,217647058,823529526>>>>,
    <<<<3,200000000,177>>, <<0,35294117,647058823>>, <<3,235294117,647058875>>>>,
    <<<<3,200000000,177>>, <<0,52941176,470588234>>, <<3,252941176,470588224>>>>,
    <<<<3,200000000,177>>, <<0,70588235,294117646>>, <<3,270588235,294118018>>>>,
    <<<<3,200000000,177>>, <<0,200000000,11>>, <<3,400000000,355>>>>,
    <<<<3,200000000,177>>, <<0,299999999,999999988>>, <<3,500000000,0>>>>,
    <<<<4,0,0>>, <<0,0,0>>, <<4,0,0>>>>,
    <<<<4,0,0>>, <<0,16666666,666666666>>, <<4,16666666,666666607>>>>,
    <<<<4,0,0>>, <<0,33333333,333333332>>, <<4,33333333,333333214>>>>,
    <<<<4,0,0>>, <<0,49999999,999999995>>, <<4,49999999,999999822>>>>,
    <<<<4,0,0>>, <<0,66666666,666666665>>, <<4,66666666,666666429>>>>,
    <<<<4,0,0>>, <<0,83333333,333333328>>, <<4,83333333,333333037>>>>,
    <<<<4,0,0>>, <<0,99999999,999999991>>, <<4,99999999,999999644>>>>,
    <<<<4,0,0>>, <<0,116666666,666666668>>, <<4,116666666,666666252>>>>,
    <<<<4,0,0>>, <<0,133333333,333333331>>, <<4,133333333,333333747>>>>,
    <<<<4,0,0>>, <<0,149999999,999999994>>, <<4,150000000,355>>>>,
    <<<<4,0,0>>, <<0,166666666,666666657>>, <<4,166666666,666666962>>>>,
    <<<<4,0,0>>, <<0,183333333,333333348>>, <<4,183333333,333333570>>>>,
    <<<<4,0,0>>, <<0,199999999,999999983>>, <<4,200000000,177>>>>,
    <<<<4,0,0>>, <<0,216666666,666666646>>, <<4,216666666,666666785>>>>,
    <<<<4,0,0>>, <<0,233333333,333333337>>, <<4,233333333,333333392>>>>,
    <<<<4,0,0>>, <<0,250000000,0>>, <<4,250000000,0>>>>,
    <<<<4,0,0>>, <<0,266666666,666666662>>, <<4,266666666,666666607>>>>,
    <<<<4,0,0>>, <<0,283333333,333333325>>, <<4,283333333,333333214>>>>,
    <<<<4,0,0>>, <<0,299999999,999999988>>, <<4,299999999,999999822>>>> }

\* x + y
fadd(x, y) == (CHOOSE p \in FADD : p[1] = x /\ p[2] = y)[3]

(***************************************************************************)
(* The description chapter extractor and scorer of main-app.py and         *)
(* main-app-v2.py (the loop body is the same text in both).                *)
(***************************************************************************)
ENGAGEMENT_INDICATORS == <<
    <<"h","i","g","h","l","i","g","h","t">>, <<"b","e","s","t">>, <<"t","o","p">>,
    <<"i","m","p","o","r","t","a","n","t">>, <<"k","e","y">>, <<"m","a","i","n">>,
    <<"c","r","u","c","i","a","l">>, <<"m","u","s","t"," ","s","e","e">>, <<"a","m","a","z","i","n","g">>,
    <<"a","w","e","s","o","m","e">>, <<"p","e","r","f","e","c","t">> >>

Continue == [kind |-> "continue"]
Raise == [kind |-> "raise"]

\* search_terms = set(word.lower() for word in query_keywords)
search_terms_of(keywords) == {lower(w) : w \in Elements(keywords)}

\* variant of title_score whose fallback for an empty search_terms is 0
title_score_zero_fallback(title, search_terms) ==
    IF search_terms # {}
    THEN fdiv(Cardinality(search_terms \cap Elements(split_ws(lower(title)))),
              Cardinality(search_terms))
    ELSE FZero

\* relevance_score = len(matching_words) / len(search_terms) if search_terms else 0.5
title_score(title, search_terms) ==
    IF search_terms # {}
    THEN fdiv(Cardinality(search_terms \cap Elements(split_ws(lower(title)))),
              Cardinality(search_terms))
    ELSE FHalf

\* description_lines.index(line), counted from 0
index_of(description_lines, line) ==
    (CHOOSE i \in 1..Len(description_lines) :
        /\ description_lines[i] = line
        /\ \A j \in 1..(i - 1) : description_lines[j] # line) - 1

\* variant of context_at whose window starts after the line
context_at_following(description_lines, index) ==
    lower(join(SubSeq(description_lines,
                      index + 2,
                      Min(Len(description_lines), index + 3)), " "))

\* the context window of a line
\* ' '.join(description_lines[context_start:context_end]).lower() around index
context_at(description_lines, index) ==
    lower(join(SubSeq(description_lines,
                      Max(0, index - 2) + 1,
                      Min(Len(description_lines), index + 3)), " "))

context_of(description_lines, line) ==
    context_at(description_lines, index_of(description_lines, line))

\* context_matches = sum(1 for term in search_terms if term in context)
context_matches_of(context, search_terms) ==
    Cardinality({term \in search_terms : is_substring(term, context)})

\* variant of context_score that does not divide by len(search_terms)
context_score_unnormalised(context, search_terms) ==
    IF search_terms # {}
    THEN fdiv(context_matches_of(context, search_terms), 1)
    ELSE FZero

\* context_score = context_matches / len(search_terms) if search_terms else 0
context_score(context, search_terms) ==
    IF search_terms # {}
    THEN fdiv(context_matches_of(context, search_terms), Cardinality(search_terms))
    ELSE FZero

\* any(indicator in title.lower() for indicator in engagement_indicators)
any_indicator_in(title_lower) ==
    \E i \in 1..Len(ENGAGEMENT_INDICATORS) :
        is_substring(ENGAGEMENT_INDICATORS[i], title_lower)

engagement_boost_of(title) == any_indicator_in(lower(title))

\* variant of with_boost that adds 0.3
with_boost_of_0_3(final, engagement_boost) ==
    IF engagement_boost THEN fadd(final, F0_3) ELSE final

\* variant of with_boost that adds 0.2 to every chapter
with_boost_unconditional(final, engagement_boost) == fadd(final, F0_2)

\* if engagement_boost: final_score += 0.2
with_boost(final, engagement_boost) ==
    IF engagement_boost THEN fadd(final, F0_2) ELSE final

\* final_score = (relevance_score * 0.6) + (context_score * 0.2), += 0.2 if boosted
final_score(title, context, search_terms) ==
    with_boost(fadd(fmul(title_score(title, search_terms), F0_6),
                    fmul(context_score(context, search_terms), F0_2)),
               engagement_boost_of(title))

\* the dict appended to chapters
chapter(seconds, title, context, search_terms) ==
    [start_time |-> seconds,
     title |-> strip(title),
     relevance_score |-> final_score(title, context, search_terms),
     context |-> context,
     segment_type |-> IF engagement_boost_of(title) THEN "engagement" ELSE "keyword_match",
     duration |-> 5,
     url_t |-> seconds]

\* variant of after_conversion that skips a line only when its offset lies
\* beyond the end of the video
after_conversion_beyond(description_lines, line, title, seconds, search_terms, duration_seconds) ==
    IF ~seconds.ok THEN Raise
    ELSE IF seconds.val > duration_seconds THEN Continue
    ELSE [kind |-> "append",
          chapter |-> chapter(seconds.val, title,
                              context_of(description_lines, line), search_terms)]

\* the try block from `if seconds >= video_data['duration']['seconds']` on;
\* seconds is the outcome of the timestamp conversion
after_conversion(description_lines, line, title, seconds, search_terms, duration_seconds) ==
    IF ~seconds.ok THEN Raise
    ELSE IF seconds.val >= duration_seconds THEN Continue
    ELSE [kind |-> "append",
          chapter |-> chapter(seconds.val, title,
                              context_of(description_lines, line), search_terms)]

\* the try block from `if len(parts) < 2` on
after_split(description_lines, line, parts, search_terms, duration_seconds) ==
    IF Len(parts) < 2 THEN Continue
    ELSE IF ~has_char(parts[1], ":") THEN Continue
    ELSE after_conversion(description_lines, line, parts[2],
                          timestamp_seconds(parts[1]), search_terms, duration_seconds)

\* the body of the try block for one candidate line
chapter_body(description_lines, line, search_terms, duration_seconds) ==
    after_split(description_lines, line, split_once(line, " "),
                search_terms, duration_seconds)

\* variant of except_continue without the handler: the exception leaves the loop
no_handler(outcome) == outcome

\* except Exception as e: continue
except_continue(outcome) == IF outcome.kind = "raise" THEN Continue ELSE outcome

\* one iteration of `for line in description_lines`
chapter_of_line(description_lines, line, search_terms, duration_seconds) ==
    IF has_char(line, ":") /\ any_digit(line)
    THEN except_continue(chapter_body(description_lines, line, search_terms, duration_seconds))
    ELSE Continue

\* the chapters list after the loop; "raise" when an iteration raised
RECURSIVE appended(_)
appended(outcomes) ==
    IF outcomes = <<>> THEN <<>>
    ELSE (IF outcomes[1].kind = "append" THEN <<outcomes[1].chapter>> ELSE <<>>)
         \o appended(Tail(outcomes))

\* sorted(items, key=..., reverse=True), keys[i] being the key of items[i]:
\* descending by key, items of equal key in their original order
sorted_reverse(items, keys) ==
    LET n == Len(items)
        rank(i) == 1 + Cardinality({j \in 1..n :
                        FLess(keys[i], keys[j]) \/ (keys[j] = keys[i] /\ j < i)})
    IN  IF n = 0 THEN <<>>
        ELSE [p \in 1..n |-> items[CHOOSE i \in 1..n : rank(i) = p]] \o <<>>

relevance_keys(items) ==
    IF items = <<>> THEN <<>>
    ELSE [i \in 1..Len(items) |-> items[i].relevance_score] \o <<>>

\* variant of head that keeps every item
head_untruncated(items, k) == items

\* items[:k]
head(items, k) == SubSeq(items, 1, Min(k, Len(items)))

opening_hook ==
    [type |-> "opening", start_time |-> 0, duration |-> 5, url_t |-> 0,
     relevance_score |-> FOne, segment_type |-> "intro",
     title |-> <<"O","p","e","n","i","n","g"," ","H","o","o","k">>]

\* variant of sorted_by_relevance that leaves the items in their order
sorted_by_relevance_unsorted(items) == items

\* sorted(items, key=lambda x: x['relevance_score'], reverse=True)
sorted_by_relevance(items) == sorted_reverse(items, relevance_keys(items))

\* the outcomes of `for line in description_lines`, one per line
outcomes_of(description_lines, search_terms, duration_seconds) ==
    [i \in 1..Len(description_lines) |->
        chapter_of_line(description_lines, description_lines[i],
                        search_terms, duration_seconds)] \o <<>>

loop_outcomes(text, keywords, duration_seconds) ==
    outcomes_of(split_sep(text, "\n"), search_terms_of(keywords), duration_seconds)

\* an exception that leaves the loop leaves _analyze_segments
any_raise(outcomes) == \E i \in 1..Len(outcomes) : outcomes[i].kind = "raise"

\* the end of _analyze_segments of main-app.py, from `sorted_chapters = ...` on
merge_v1(outcomes) ==
    IF any_raise(outcomes)
    THEN [raised |-> TRUE, value |-> <<>>]
    ELSE [raised |-> FALSE,
          value |-> sorted_by_relevance(
                        <<opening_hook>> \o head(sorted_by_relevance(appended(outcomes)), 5))]

\* _analyze_segments of main-app.py: [raised, value]
analyze_segments_v1(text, keywords, duration_seconds) ==
    merge_v1(loop_outcomes(text, keywords, duration_seconds))

(***************************************************************************)
(* main-app-v2.py: the transcript matcher and the merged list              *)
(***************************************************************************)
\* int(x) for a float x given in tenths: truncation towards zero
int_of_tenths(x) == IF x >= 0 THEN x \div 10 ELSE 0 - ((0 - x) \div 10)

\* _get_captions: the transcript, or [] when get_transcript raises
get_captions(answer) == IF answer.ok THEN answer.entries ELSE <<>>

\* sum(1 for word in query_keywords if word in text)
RECURSIVE count_in_text(_, _)
count_in_text(keywords, text) ==
    IF keywords = <<>> THEN 0
    ELSE (IF is_substring(keywords[1], text) THEN 1 ELSE 0)
         + count_in_text(Tail(keywords), text)

\* variant of caption_segment that divides by the number of different keywords
caption_segment_by_distinct(text, start_time, matching_words, keywords) ==
    IF matching_words > 0
    THEN <<[type |-> "transcript_match",
            start_time |-> int_of_tenths(start_time),
            duration |-> 5,
            title |-> <<"K","e","y","w","o","r","d"," ","m","e","n","t","i","o","n",":"," ">>
                      \o head(text, 50) \o <<".", ".", ".">>,
            relevance_score |-> fdiv(matching_words, Cardinality(Elements(keywords))),
            segment_type |-> "transcript_match"]>>
    ELSE <<>>

\* what one caption appends to caption_segments: text is the lower-cased
\* caption text, matching_words the number of keywords found in it
caption_segment(text, start_time, matching_words, keywords) ==
    IF matching_words > 0
    THEN <<[type |-> "transcript_match",
            start_time |-> int_of_tenths(start_time),
            duration |-> 5,
            title |-> <<"K","e","y","w","o","r","d"," ","m","e","n","t","i","o","n",":"," ">>
                      \o head(text, 50) \o <<".", ".", ".">>,
            relevance_score |-> fdiv(matching_words, Len(keywords)),
            segment_type |-> "transcript_match"]>>
    ELSE <<>>

\* the segments appended by the loop over captions, in caption order
RECURSIVE caption_matches(_, _)
caption_matches(captions, keywords) ==
    IF captions = <<>> THEN <<>>
    ELSE caption_segment(lower(captions[1].text), captions[1].start,
                         count_in_text(keywords, lower(captions[1].text)), keywords)
         \o caption_matches(Tail(captions), keywords)

\* _analyze_captions on the captions _get_captions returned
top_captions(captions, keywords) ==
    IF captions = <<>> THEN <<>>
    ELSE head(sorted_by_relevance(caption_matches(captions, keywords)), 3)

\* _analyze_captions
analyze_captions(answer, keywords) == top_captions(get_captions(answer), keywords)

\* segment['url'] = f"{video_data['url']}&t={segment['start_time']}s"
with_url(segments) ==
    IF segments = <<>> THEN <<>>
    ELSE [i \in 1..Len(segments) |->
            [type |-> segments[i].type,
             start_time |-> segments[i].start_time,
             duration |-> segments[i].duration,
             title |-> segments[i].title,
             relevance_score |-> segments[i].relevance_score,
             segment_type |-> segments[i].segment_type,
             url_t |-> segments[i].start_time]] \o <<>>

\* variant of boosted_keys without the multiplier
boosted_keys_unboosted(items) ==
    IF items = <<>> THEN <<>>
    ELSE [i \in 1..Len(items) |-> items[i].relevance_score] \o <<>>

\* the key of the final sort of main-app-v2.py
boosted_keys(items) ==
    IF items = <<>> THEN <<>>
    ELSE [i \in 1..Len(items) |->
            IF items[i].segment_type = "transcript_match"
            THEN fmul(items[i].relevance_score, F1_2)
            ELSE items[i].relevance_score] \o <<>>

\* the final sort of main-app-v2.py
sorted_boosted(items) == sorted_reverse(items, boosted_keys(items))

\* the end of _analyze_segments of main-app-v2.py, from `sorted_chapters = ...` on
merge_v2(caption_segments, outcomes) ==
    IF any_raise(outcomes)
    THEN [raised |-> TRUE, value |-> <<>>]
    ELSE [raised |-> FALSE,
          value |-> sorted_boosted(
                        <<opening_hook>> \o caption_segments
                        \o head(sorted_by_relevance(appended(outcomes)), 5))]

\* variant of analyze_segments_v2 that reads the captions whatever the flag
analyze_segments_v2_always_captions(text, keywords, duration_seconds, answer, captions_on) ==
    merge_v2(with_url(analyze_captions(answer, keywords)),
             loop_outcomes(text, keywords, duration_seconds))

\* _analyze_segments of main-app-v2.py: [raised, value]
analyze_segments_v2(text, keywords, duration_seconds, answer, captions_on) ==
    merge_v2(IF captions_on THEN with_url(analyze_captions(answer, keywords)) ELSE <<>>,
             loop_outcomes(text, keywords, duration_seconds))

(***************************************************************************)
(* main_app-v3.py: the comment timestamp aggregator.                       *)
(*   timestamp_pattern = r'(\d+h)?(\d+m)?(\d+s)?|(\d+:)?(\d+):(\d+)'       *)
(* re.finditer tries the first alternative first; it matches the empty     *)
(* string wherever no unit group matches.  After an empty match the        *)
(* scanner searches again from the same position and there refuses an      *)
(* empty match, which is when the second alternative is tried.             *)
(***************************************************************************)
\* the length of the run of digits of s from position i
RECURSIVE digits_run(_, _)
digits_run(s, i) ==
    IF i <= Len(s) /\ isdigit(s[i]) THEN 1 + digits_run(s, i + 1) ELSE 0

\* the length matched by (\d+u)? at position i: the digits and the unit, or 0
unit_group(s, i, u) ==
    LET d == digits_run(s, i)
    IN  IF d > 0 /\ i + d <= Len(s) /\ s[i + d] = u THEN d + 1 ELSE 0

\* the length matched by (\d+h)?(\d+m)?(\d+s)? at position i
units_len(s, i) ==
    LET h == unit_group(s, i, "h")
        m == unit_group(s, i + h, "m")
        sec == unit_group(s, i + h + m, "s")
    IN  h + m + sec

\* the length matched by (\d+):(\d+) at position i, or 0 when it does not match
pair_len(s, i) ==
    LET d1 == digits_run(s, i)
        d2 == digits_run(s, i + d1 + 1)
    IN  IF d1 > 0 /\ i + d1 <= Len(s) /\ s[i + d1] = ":" /\ d2 > 0
        THEN d1 + 1 + d2 ELSE 0

\* the length matched by (\d+:)?(\d+):(\d+) at position i, or 0
colons_len(s, i) ==
    LET d1 == digits_run(s, i)
        rest == pair_len(s, i + d1 + 1)
    IN  IF d1 > 0 /\ i + d1 <= Len(s) /\ s[i + d1] = ":" /\ rest > 0
        THEN d1 + 1 + rest
        ELSE pair_len(s, i)

\* the length of the match at position i, or -1; an empty match is refused
\* when must_advance
match_len(s, i, must_advance) ==
    LET u == units_len(s, i)
        c == colons_len(s, i)
    IN  IF u > 0 \/ ~must_advance THEN u
        ELSE IF c > 0 THEN c
        ELSE -1

\* [match.group() for match in re.finditer(timestamp_pattern, s)], scanning from
\* position i
RECURSIVE scan_from(_, _, _)
scan_from(s, i, must_advance) ==
    IF i > Len(s) + 1 THEN <<>>
    ELSE
    LET n == match_len(s, i, must_advance)
    IN  IF n < 0
        THEN scan_from(s, i + 1, FALSE)
        ELSE <<SubSeq(s, i, i + n - 1)>> \o scan_from(s, i + n, n = 0)

finditer(s) == scan_from(s, 1, FALSE)

\* timestamp_counts[seconds] += 1 on a Counter kept as the list of
\* [key, count] in the order the keys were first counted
RECURSIVE counter_add(_, _)
counter_add(counts, key) ==
    IF counts = <<>> THEN <<[key |-> key, count |-> 1]>>
    ELSE IF counts[1].key = key
    THEN <<[key |-> key, count |-> counts[1].count + 1]>> \o Tail(counts)
    ELSE <<counts[1]>> \o counter_add(Tail(counts), key)

\* the try block for one match; a ValueError is swallowed by `except: continue`
count_match(counts, seconds) ==
    IF seconds.ok THEN counter_add(counts, seconds.val) ELSE counts

\* the loop over the matches of one comment
RECURSIVE count_matches(_, _)
count_matches(counts, matches) ==
    IF matches = <<>> THEN counts
    ELSE count_matches(count_match(counts, timestamp_seconds(matches[1])), Tail(matches))

\* the loop over comments_response.get('items', [])
RECURSIVE count_comments(_, _)
count_comments(counts, items) ==
    IF items = <<>> THEN counts
    ELSE count_comments(count_matches(counts, finditer(lower(items[1]))), Tail(items))

\* variant of max_count_of: min(timestamp_counts.values())
RECURSIVE min_count_of(_)
min_count_of(counts) ==
    IF counts = <<>> THEN 0
    ELSE IF Tail(counts) = <<>> THEN counts[1].count
    ELSE Min(counts[1].count, min_count_of(Tail(counts)))

\* max(timestamp_counts.values())
RECURSIVE max_count_of(_)
max_count_of(counts) ==
    IF counts = <<>> THEN 0 ELSE Max(counts[1].count, max_count_of(Tail(counts)))

\* timestamp_counts.most_common(n): descending by count, equal counts in the
\* order first counted, the first n
most_common(counts, n) ==
    LET len == Len(counts)
        rank(i) == 1 + Cardinality({j \in 1..len :
                        counts[j].count > counts[i].count
                        \/ (counts[j].count = counts[i].count /\ j < i)})
        ordered == IF len = 0 THEN <<>>
                   ELSE [p \in 1..len |-> counts[CHOOSE i \in 1..len : rank(i) = p]] \o <<>>
    IN  head(ordered, n)

\* the dicts appended to engagement_data for the entries of most_common(10)
engagement_entries(top, max_count) ==
    [i \in 1..Len(top) |->
        [start_time |-> top[i].key,
         frequency |-> top[i].count,
         relevance_score |-> fdiv(top[i].count, max_count),
         source |-> "comments"]] \o <<>>

\* variant of engagement_data_of that loops over most_common(11)
engagement_data_of_eleven(timestamp_counts) ==
    IF timestamp_counts = <<>> THEN <<>>
    ELSE engagement_entries(most_common(timestamp_counts, 11),
                            max_count_of(timestamp_counts))

\* `if timestamp_counts:` and the loop over most_common(10)
engagement_data_of(timestamp_counts) ==
    IF timestamp_counts = <<>> THEN <<>>
    ELSE engagement_entries(most_common(timestamp_counts, 10),
                            max_count_of(timestamp_counts))

\* _get_engagement_metrics; a failing commentThreads call is caught and gives []
get_engagement_metrics(answer) ==
    IF ~answer.ok THEN <<>>
    ELSE engagement_data_of(count_comments(<<>>, answer.items))

(***************************************************************************)
(* main_app-v3.py: the replay heatmap and the bucketed result              *)
(***************************************************************************)
\* _get_most_replayed_segments: [] when the request fails, the page has no
\* 'heatmap=', eval fails, or an entry lacks a key (KeyError, caught)
get_most_replayed_segments(page) ==
    IF page.status # "ok" THEN <<>>
    ELSE IF \E i \in 1..Len(page.data) :
                ~({"start", "end", "intensity"} \subseteq DOMAIN page.data[i])
    THEN <<>>
    ELSE IF page.data = <<>> THEN <<>>
    ELSE [i \in 1..Len(page.data) |->
            [start_time |-> page.data[i].start,
             end_time |-> page.data[i].end,
             intensity |-> page.data[i].intensity]] \o <<>>

ENGAGEMENT_INDICATORS_V3 == <<
    <<"h","i","g","h","l","i","g","h","t">>, <<"b","e","s","t">>, <<"t","o","p">>,
    <<"i","m","p","o","r","t","a","n","t">>, <<"k","e","y">>, <<"m","a","i","n">>,
    <<"c","r","u","c","i","a","l">>, <<"m","u","s","t"," ","s","e","e">>, <<"a","m","a","z","i","n","g">>,
    <<"a","w","e","s","o","m","e">>, <<"p","e","r","f","e","c","t">>, <<"f","a","v","o","r","i","t","e">>,
    <<"b","e","s","t"," ","p","a","r","t">>, <<"d","o","n","t"," ","m","i","s","s">>, <<"d","o","n","'","t"," ","m","i","s","s">>,
    <<"w","a","t","c","h"," ","t","h","i","s">>, <<"c","h","e","c","k"," ","o","u","t">>, <<"l","o","o","k"," ","a","t">> >>

\* str(n) for an int n >= 0
RECURSIVE py_str(_)
py_str(n) == IF n < 10 THEN <<DIGITS[n + 1]>> ELSE py_str(n \div 10) \o <<DIGITS[(n % 10) + 1]>>

\* engagement_score = sum(1 for indicator in self.engagement_indicators if indicator in title_lower)
engagement_score_of(title_lower) ==
    Cardinality({i \in 1..Len(ENGAGEMENT_INDICATORS_V3) :
                    is_substring(ENGAGEMENT_INDICATORS_V3[i], title_lower)})

\* final_score = relevance_score + (engagement_score / len(self.engagement_indicators)) * 0.3
final_score_v3(title, search_terms) ==
    fadd(title_score(title, search_terms),
         fmul(fdiv(engagement_score_of(lower(title)), Len(ENGAGEMENT_INDICATORS_V3)), F0_3))

\* the dict appended to chapters in main_app-v3.py
chapter_v3(seconds, title, search_terms) ==
    [start_time |-> seconds,
     title |-> strip(title),
     relevance_score |-> final_score_v3(title, search_terms),
     segment_type |-> "keyword_match",
     duration |-> 5,
     url_t |-> seconds]

after_conversion_v3(title, seconds, search_terms, duration_seconds) ==
    IF ~seconds.ok THEN Raise
    ELSE IF seconds.val >= duration_seconds THEN Continue
    ELSE [kind |-> "append", chapter |-> chapter_v3(seconds.val, title, search_terms)]

after_split_v3(parts, search_terms, duration_seconds) ==
    IF Len(parts) < 2 THEN Continue
    ELSE IF ~has_char(parts[1], ":") THEN Continue
    ELSE after_conversion_v3(parts[2], timestamp_seconds(parts[1]),
                             search_terms, duration_seconds)

\* the body of the try block of main_app-v3.py for one candidate line
chapter_body_v3(line, search_terms, duration_seconds) ==
    after_split_v3(split_once(line, " "), search_terms, duration_seconds)

chapter_of_line_v3(line, search_terms, duration_seconds) ==
    IF has_char(line, ":") /\ any_digit(line)
    THEN except_continue(chapter_body_v3(line, search_terms, duration_seconds))
    ELSE Continue

outcomes_of_v3(description_lines, search_terms, duration_seconds) ==
    [i \in 1..Len(description_lines) |->
        chapter_of_line_v3(description_lines[i], search_terms, duration_seconds)] \o <<>>

loop_outcomes_v3(text, keywords, duration_seconds) ==
    outcomes_of_v3(split_sep(text, "\n"), search_terms_of(keywords), duration_seconds)

\* hooks['comments'] of main_app-v3.py
comment_hooks(engagement_segments) ==
    IF engagement_segments = <<>> THEN <<>>
    ELSE [i \in 1..Len(engagement_segments) |->
            [start_time |-> engagement_segments[i].start_time,
             duration |-> 5,
             url_t |-> engagement_segments[i].start_time,
             relevance_score |-> engagement_segments[i].relevance_score,
             segment_type |-> "user_engagement",
             title |-> <<"P","o","p","u","l","a","r"," ","S","e","g","m","e","n","t"," ","(","m","e","n","t","i","o","n","e","d"," ">>
                       \o py_str(engagement_segments[i].frequency)
                       \o <<" ","t","i","m","e","s",")">>]] \o <<>>

\* variant of fill_buckets in which a failing comment request is not caught
\* inside _get_engagement_metrics and reaches the outer handler
fill_buckets_abort(outcomes, comment_answer, page) ==
    IF any_raise(outcomes)
    THEN [raised |-> TRUE,
          value |-> [comments |-> <<>>, description |-> <<>>, most_replayed |-> <<>>]]
    ELSE IF ~comment_answer.ok
    THEN [raised |-> FALSE,
          value |-> [comments |-> <<>>, description |-> <<>>, most_replayed |-> <<>>]]
    ELSE [raised |-> FALSE,
          value |->
            [comments |-> comment_hooks(get_engagement_metrics(comment_answer)),
             description |-> head(sorted_by_relevance(appended(outcomes)), 5),
             most_replayed |-> get_most_replayed_segments(page)]]

\* the dict _analyze_segments of main_app-v3.py returns
fill_buckets(outcomes, comment_answer, page) ==
    IF any_raise(outcomes)
    THEN [raised |-> TRUE,
          value |-> [comments |-> <<>>, description |-> <<>>, most_replayed |-> <<>>]]
    ELSE [raised |-> FALSE,
          value |->
            [comments |-> comment_hooks(get_engagement_metrics(comment_answer)),
             description |-> head(sorted_by_relevance(appended(outcomes)), 5),
             most_replayed |-> get_most_replayed_segments(page)]]

\* _analyze_segments of main_app-v3.py: [raised, value]
analyze_segments_v3(text, keywords, duration_seconds, comment_answer, page) ==
    fill_buckets(loop_outcomes_v3(text, keywords, duration_seconds), comment_answer, page)

(***************************************************************************)
(* Inputs                                                                  *)
(***************************************************************************)
MaxLines == 2
MaxCaptions == 2
MaxComments == 2

\* description lines combined freely
CORE_LINES == {
    <<"0",":","0","1",":","2","3"," ","c","a","t"," ","d","o","g">>,
    <<"-","1",":","0","0"," ","c","a","t">>,
    <<"0",":","0",":","9"," ","K","e","y"," ","c","a","t">>,
    <<"0",":","0",":","9"," ","d","o","g">>,
    <<"0",":","0",":","7"," ","d","o","g">> }

\* description lines analysed alone
EDGE_LINES == {
    <<>>,
    <<"1",":","2","3"," ","B","e","s","t"," ","h","i","g","h","l","i","g","h","t"," ","o","f"," ","t","h","e"," ","v","i","d","e","o">>,
    <<"(","1",":","2","3",")"," ","c","a","t">>,
    <<"1",":","2","3",","," ","c","a","t">>,
    <<"1",":","2","3","-"," ","c","a","t">>,
    <<"0",":","0",":","5"," ","b","e","s","t"," ","t","o","p"," ","k","e","y"," ","m","o","m","e","n","t">>,
    <<"9","9",":","9","9"," ","g","a","r","b","a","g","e">>,
    <<"1",":",":","5"," ","t","o","p">>,
    <<"c","a","t"," ","0",":","0","5">>,
    <<"0",":","0",":","7">>,
    <<"1",":","0",":","0",":","7"," ","x">> }

RECURSIVE lists_of(_, _)
lists_of(pool, n) ==
    IF n = 0 THEN {<<>>}
    ELSE {<<x>> \o rest : x \in pool, rest \in lists_of(pool, n - 1)}

lists_up_to(pool, n) == UNION {lists_of(pool, k) : k \in 0..n}

\* a description with six chapters
SIX_CHAPTERS ==
    <<"0",":","0",":","1"," ","c","a","t","\n","0",":","0",":","2"," ","d","o","g","\n","0",":","0",":","3"," ","i","n","t","r","o","\n","0",":","0",":","4"," ","c","a","t"," ","d","o","g","\n","0",":","0",":","5"," ","m","o","r","e","\n","0",":","0",":","6"," ","b","e","s","t">>

\* a description in which the first line occurs again as the fourth
REPEATED_LINE == <<"0",":","0",":","7"," ","d","o","g","\n","i","n","t","r","o","\n","m","o","r","e","\n","0",":","0",":","7"," ","d","o","g","\n","c","a","t">>

\* descriptions where a line that cannot be converted stands next to one that
\* can, one where a line without a timestamp is the context of a chapter, and
\* the one with six chapters
MIXED_DESCRIPTIONS == {
    <<"(","1",":","2","3",")"," ","c","a","t","\n","0",":","0",":","7"," ","d","o","g">>,
    <<"0",":","0","1",":","2","3"," ","c","a","t"," ","d","o","g","\n","1",":",":","5"," ","t","o","p">>,
    <<"d","o","g"," ","s","h","o","w","\n","0",":","0",":","7"," ","c","a","t">>,
    REPEATED_LINE,
    SIX_CHAPTERS }

CORE_DESCRIPTIONS ==
    {join(ls, "\n") : ls \in lists_up_to(CORE_LINES, MaxLines) \ {<<>>}}

DURATIONS == {0, 9, 600, 5000}

KEYWORD_LISTS == {
    <<>>,
    <<<<"c","a","t">>>>,
    <<<<"c","a","t">>, <<"d","o","g">>>>,
    <<<<"c","a","t">>, <<"c","a","t">>, <<"d","o","g">>>>,
    <<<<"H","i","g","h","l","i","g","h","t">>>>,
    <<<<"c","a","t">>, <<"d","o","g">>, <<"h","i","g","h","l","i","g","h","t">>>> }

\* caption entries: the text and the start offset in tenths of a second
CAPTION_POOL == {
    [text |-> <<"C","a","t"," ","a","n","d"," ","d","o","g">>, start |-> 125],
    [text |-> <<"a"," ","c","a","t">>, start |-> 70000],
    [text |-> <<"h","i","g","h","l","i","g","h","t"," ","c","a","t"," ","d","o","g">>, start |-> 39],
    [text |-> <<"c","o","n","c","a","t","e","n","a","t","e">>, start |-> 0],
    [text |-> <<"n","o","t","h","i","n","g">>, start |-> 5] }

NO_TRANSCRIPT == [ok |-> FALSE, entries |-> <<>>]

\* a transcript of which four entries contain "cat"
FOUR_CAPTIONS ==
    [ok |-> TRUE,
     entries |-> <<[text |-> <<"C","a","t"," ","a","n","d"," ","d","o","g">>, start |-> 125],
                   [text |-> <<"h","i","g","h","l","i","g","h","t"," ","c","a","t"," ","d","o","g">>, start |-> 39],
                   [text |-> <<"a"," ","c","a","t">>, start |-> 1250],
                   [text |-> <<"c","o","n","c","a","t","e","n","a","t","e">>, start |-> 0]>>]

TRANSCRIPTS ==
    {NO_TRANSCRIPT} \cup {[ok |-> TRUE, entries |-> es] : es \in lists_up_to(CAPTION_POOL, MaxCaptions)}

COMMENT_POOL == {
    <<"c","h","e","c","k"," ","1",":","3","0"," ","a","n","d"," ","1",":","3","0"," ","a","g","a","i","n">>,
    <<"A","t"," ","8","3","s"," ","a","n","d"," ","2","m","1","0","s">>,
    <<"0",":","0",":","7"," ","l","o","l">>,
    <<"1",":","0","2",":","0","3","!">>,
    <<"n","o"," ","t","i","m","e">> }

\* a comment that names eleven different offsets
ELEVEN_OFFSETS ==
    <<"0",":","0",":","1"," ","0",":","0",":","2"," ","0",":","0",":","3"," ","0",":","0",":","4"," ","0",":","0",":","5"," ","0",":","0",":","6"," ","0",":","0",":","7"," ","0",":","0",":","8"," ","0",":","0",":","9"," ","0",":","0",":","1","0"," ","0",":","0",":","1","1">>

NO_COMMENTS == [ok |-> TRUE, items |-> <<>>]

COMMENT_ANSWERS ==
    {[ok |-> FALSE, items |-> <<>>],
     [ok |-> TRUE, items |-> <<ELEVEN_OFFSETS>>],
     [ok |-> TRUE, items |-> <<ELEVEN_OFFSETS, <<"0",":","0",":","7"," ","l","o","l">>>>]}
    \cup {[ok |-> TRUE, items |-> cs] : cs \in lists_up_to(COMMENT_POOL, MaxComments)}

NO_HEATMAP == [status |-> "absent", data |-> <<>>]

HEATMAPS == {
    NO_HEATMAP,
    [status |-> "request_failed", data |-> <<>>],
    [status |-> "eval_failed", data |-> <<>>],
    [status |-> "ok", data |-> <<[start |-> 0, end |-> 10, intensity |-> 5]>>],
    [status |-> "ok", data |-> <<[start |-> 0, end |-> 10, intensity |-> 5],
                                 [start |-> 30, end |-> 20, intensity |-> 9]>>],
    [status |-> "ok", data |-> <<[start |-> 0, end |-> 10, intensity |-> 5],
                                 [start |-> 40, end |-> 50]>>] }

NO_BUCKETS == [comments |-> <<>>, description |-> <<>>, most_replayed |-> <<>>]

\* a description with chapters, a duration and a query; no other signal
InitDescription ==
    /\ \/ description \in CORE_DESCRIPTIONS /\ duration \in {9, 600}
       \/ description \in EDGE_LINES \cup MIXED_DESCRIPTIONS /\ duration \in DURATIONS
    /\ query_keywords \in KEYWORD_LISTS
    /\ transcript = NO_TRANSCRIPT
    /\ comments = NO_COMMENTS
    /\ heatmap = NO_HEATMAP

\* a transcript and a query
InitTranscript ==
    /\ \/ description = <<"0",":","0","1",":","2","3"," ","c","a","t"," ","d","o","g">> /\ transcript \in TRANSCRIPTS
       \/ description = SIX_CHAPTERS /\ transcript = FOUR_CAPTIONS
    /\ duration = 600
    /\ query_keywords \in KEYWORD_LISTS
    /\ comments = NO_COMMENTS
    /\ heatmap = NO_HEATMAP

\* comments and a replay heatmap
InitEngagement ==
    /\ description \in {<<>>, <<"0",":","0","1",":","2","3"," ","c","a","t"," ","d","o","g">>}
    /\ duration = 600
    /\ query_keywords = <<<<"c","a","t">>>>
    /\ transcript = NO_TRANSCRIPT
    /\ \/ comments \in COMMENT_ANSWERS /\ heatmap = NO_HEATMAP
       \/ comments \in {NO_COMMENTS, [ok |-> TRUE, items |-> <<<<"0",":","0",":","7"," ","l","o","l">>>>],
                        [ok |-> FALSE, items |-> <<>>]}
          /\ heatmap \in HEATMAPS

\* analyze_videos is not running
NO_SEARCH == [status |-> "none", items |-> <<>>]
NO_VIDEOS == [ok |-> FALSE, items |-> <<>>]

BatchIdle ==
    /\ revision = "none"
    /\ query = <<>>
    /\ search_response = NO_SEARCH
    /\ videos_response = NO_VIDEOS
    /\ pc = "idle"
    /\ position = 0
    /\ analyzed_videos = <<>>
    /\ result = <<>>

Init ==
    /\ InitDescription \/ InitTranscript \/ InitEngagement
    /\ BatchIdle
    /\ called = "none"
    /\ use_captions = FALSE
    /\ hooks = <<>>
    /\ buckets = NO_BUCKETS
    /\ raised = FALSE

(***************************************************************************)
(* The calls                                                               *)
(***************************************************************************)
AnalyzeSegmentsV1 ==
    /\ called = "none"
    /\ LET r == analyze_segments_v1(description, query_keywords, duration)
       IN  /\ hooks' = r.value
           /\ raised' = r.raised
    /\ called' = "v1._analyze_segments"
    /\ UNCHANGED <<inputs, batch, use_captions, buckets>>

AnalyzeSegmentsV2 ==
    /\ called = "none"
    /\ \E flag \in BOOLEAN :
        /\ use_captions' = flag
        /\ LET r == analyze_segments_v2(description, query_keywords, duration, transcript, flag)
           IN  /\ hooks' = r.value
               /\ raised' = r.raised
    /\ called' = "v2._analyze_segments"
    /\ UNCHANGED <<inputs, batch, buckets>>

AnalyzeSegmentsV3 ==
    /\ called = "none"
    /\ LET r == analyze_segments_v3(description, query_keywords, duration, comments, heatmap)
       IN  /\ buckets' = r.value
           /\ raised' = r.raised
    /\ called' = "v3._analyze_segments"
    /\ UNCHANGED <<inputs, batch, use_captions, hooks>>

AnalyzeCaptions ==
    /\ called = "none"
    /\ hooks' = analyze_captions(transcript, query_keywords)
    /\ called' = "v2._analyze_captions"
    /\ UNCHANGED <<inputs, batch, use_captions, buckets, raised>>

GetEngagementMetrics ==
    /\ called = "none"
    /\ hooks' = get_engagement_metrics(comments)
    /\ called' = "v3._get_engagement_metrics"
    /\ UNCHANGED <<inputs, batch, use_captions, buckets, raised>>

GetMostReplayedSegments ==
    /\ called = "none"
    /\ hooks' = get_most_replayed_segments(heatmap)
    /\ called' = "v3._get_most_replayed_segments"
    /\ UNCHANGED <<inputs, batch, use_captions, buckets, raised>>

Next ==
    \/ AnalyzeSegmentsV1
    \/ AnalyzeSegmentsV2
    \/ AnalyzeSegmentsV3
    \/ AnalyzeCaptions
    \/ GetEngagementMetrics
    \/ GetMostReplayedSegments

Spec == Init /\ [][Next]_vars

\* the same calls on the descriptions alone, no signal fetched
InitDescriptionOnly ==
    /\ InitDescription
    /\ BatchIdle
    /\ called = "none"
    /\ use_captions = FALSE
    /\ hooks = <<>>
    /\ buckets = NO_BUCKETS
    /\ raised = FALSE

SpecDescription == InitDescriptionOnly /\ [][Next]_vars

\* the same calls on the fetched signals: captions, comments, heatmap
InitSignals ==
    /\ InitTranscript \/ InitEngagement
    /\ BatchIdle
    /\ called = "none"
    /\ use_captions = FALSE
    /\ hooks = <<>>
    /\ buckets = NO_BUCKETS
    /\ raised = FALSE

SpecSignals == InitSignals /\ [][Next]_vars

(***************************************************************************)
(* What a call returned, read from the state after it                      *)
(***************************************************************************)
FLAT_ANALYSES == {"v1._analyze_segments", "v2._analyze_segments"}
ANALYSES == FLAT_ANALYSES \cup {"v3._analyze_segments"}

lines_of_description == split_sep(description, "\n")
terms_of_query == search_terms_of(query_keywords)

is_chapter(h) == h.segment_type \in {"keyword_match", "engagement"}

\* the description chapters a call of _analyze_segments returned
chapters_returned ==
    IF called = "v3._analyze_segments"
    THEN buckets.description
    ELSE SelectSeq(hooks, is_chapter)

\* every segment a call of _analyze_segments returned from the intro, the
\* description, the transcript and the comments
segments_returned ==
    IF called = "v3._analyze_segments"
    THEN buckets.comments \o buckets.description
    ELSE hooks

\* the outcomes of the loop over the lines of the description, one per line
outcomes_of_description ==
    IF called = "v3._analyze_segments"
    THEN loop_outcomes_v3(description, query_keywords, duration)
    ELSE loop_outcomes(description, query_keywords, duration)

\* the lines of which the loop made a chapter
accepted(outcomes) == {i \in 1..Len(outcomes) : outcomes[i].kind = "append"}

title_of_line(i) == split_once(lines_of_description[i], " ")[2]

(***************************************************************************)
(* C1                                                                      *)
(***************************************************************************)
no_signal ==
    /\ description = <<>>
    /\ get_captions(transcript) = <<>>
    /\ comments.items = <<>>
    /\ heatmap.status = "absent"

\* C1: in every revision, _analyze_segments on a video with an empty
\* description, no transcript, no comments and no heatmap returns exactly one
\* segment, the intro with start_time = 0 and relevance_score = 1.0.
C1_IntroAloneInEveryRevision ==
    (called \in ANALYSES /\ no_signal)
        => /\ Len(segments_returned \o
                  (IF called = "v3._analyze_segments" THEN buckets.most_replayed ELSE <<>>)) = 1
           /\ segments_returned[1].segment_type = "intro"
           /\ segments_returned[1].start_time = 0
           /\ segments_returned[1].relevance_score = FOne

(***************************************************************************)
(* C2                                                                      *)
(***************************************************************************)
all_digits(g) == g # <<>> /\ \A k \in 1..Len(g) : isdigit(g[k])

\* M * 60 + S for the groups <<M, S>>
minutes_seconds(groups) == 60 * digits_value(groups[1]) + digits_value(groups[2])

\* a line "M:S title" whose M:S lies inside the video has a chapter at M*60 + S
two_groups_right_aligned(parts, groups) ==
    (/\ Len(parts) = 2
     /\ Len(groups) = 2
     /\ all_digits(groups[1]) /\ all_digits(groups[2])
     /\ minutes_seconds(groups) < duration)
        => \E k \in 1..Len(chapters_returned) :
                chapters_returned[k].start_time = minutes_seconds(groups)

line_right_aligned(parts) == two_groups_right_aligned(parts, split_sep(parts[1], ":"))

\* C2: the colon form is right-aligned against [3600, 60, 1]: a two-group
\* token M:S of a description line yields the chapter offset M*60 + S, so
\* "1:23" yields 83.
C2_TwoGroupsAreMinutesAndSeconds ==
    (called \in ANALYSES /\ Len(lines_of_description) <= 5)
        => \A i \in 1..Len(lines_of_description) :
                line_right_aligned(split_once(lines_of_description[i], " "))

(***************************************************************************)
(* C3                                                                      *)
(***************************************************************************)
\* C3: every segment _analyze_segments returns, from the intro, the
\* description, the transcript or the comments, has
\* 0 <= start_time < video duration.
C3_StartTimeInsideVideo ==
    called \in ANALYSES
        => \A k \in 1..Len(segments_returned) :
                /\ 0 <= segments_returned[k].start_time
                /\ segments_returned[k].start_time < duration

(***************************************************************************)
(* C4                                                                      *)
(***************************************************************************)
\* C4: no description chapter returned by _analyze_segments has
\* start_time >= duration, and "99:99 garbage" on a 600-second video gives no
\* chapter.
C4_NoChapterAtOrAfterEnd ==
    called \in ANALYSES
        => /\ \A k \in 1..Len(chapters_returned) :
                chapters_returned[k].start_time < duration
           /\ (description = <<"9","9",":","9","9"," ","g","a","r","b","a","g","e">> /\ duration = 600)
                => chapters_returned = <<>>

\* "99:99 garbage" on a 600-second video was analysed and only the intro came back
C4_Witness ==
    /\ called = "v1._analyze_segments"
    /\ description = <<"9","9",":","9","9"," ","g","a","r","b","a","g","e">>
    /\ duration = 600
    /\ hooks = <<opening_hook>>

(***************************************************************************)
(* C5                                                                      *)
(***************************************************************************)
\* C5: two comments that each read "check 1:30 and 1:30 again" give exactly
\* one aggregated entry with start_time = 90, frequency = 2 and
\* relevance_score = 1.0.
C5_TwoCommentsOneEntryAt90 ==
    (/\ called = "v3._get_engagement_metrics"
     /\ comments.ok
     /\ comments.items = <<<<"c","h","e","c","k"," ","1",":","3","0"," ","a","n","d"," ","1",":","3","0"," ","a","g","a","i","n">>, <<"c","h","e","c","k"," ","1",":","3","0"," ","a","n","d"," ","1",":","3","0"," ","a","g","a","i","n">>>>)
        => /\ Len(hooks) = 1
           /\ hooks[1].start_time = 90
           /\ hooks[1].frequency = 2
           /\ hooks[1].relevance_score = FOne

(***************************************************************************)
(* C6                                                                      *)
(***************************************************************************)
\* counts[k] has the greatest count of the tally
is_peak(counts, k) == \A j \in 1..Len(counts) : counts[j].count <= counts[k].count

\* the entries with relevance_score = 1.0 are the returned offsets of greatest count
full_score_is_peak(counts, entries) ==
    \A i \in 1..Len(entries) :
        (entries[i].relevance_score = FOne)
            <=> \E k \in 1..Len(counts) :
                    counts[k].key = entries[i].start_time /\ is_peak(counts, k)

\* every offset of greatest count is among the entries
peaks_present(counts, entries) ==
    \A k \in 1..Len(counts) :
        is_peak(counts, k) => \E i \in 1..Len(entries) : entries[i].start_time = counts[k].key

every_tie_returned(counts, entries) ==
    full_score_is_peak(counts, entries) /\ peaks_present(counts, entries)

ties_returned_up_to_ten(counts, entries) ==
    /\ full_score_is_peak(counts, entries)
    /\ Len(counts) <= 10 => peaks_present(counts, entries)
    /\ Len(entries) = Min(10, Len(counts))

boosted_score(h) ==
    IF called = "v2._analyze_segments" /\ h.segment_type = "transcript_match"
    THEN fmul(h.relevance_score, F1_2)
    ELSE h.relevance_score

in_order(a, b) ==
    \/ FLess(boosted_score(b), boosted_score(a))
    \/ boosted_score(a) = boosted_score(b) /\ a.start_time <= b.start_time

\* C7: in main-app.py and main-app-v2.py the hooks are in descending order
\* of (boosted) relevance_score, and hooks of equal (boosted) score are in
\* ascending order of start_time.
C7_TiesByAscendingStartTime ==
    called \in FLAT_ANALYSES
        => \A i \in 1..Len(hooks) : \A j \in (i + 1)..Len(hooks) : in_order(hooks[i], hooks[j])

(***************************************************************************)
(* C8                                                                      *)
(***************************************************************************)
\* the chapter of every line that was converted is among those returned
\* (all of them when at most five were converted)
converted_lines_returned(outcomes, returned) ==
    /\ Len(returned) = Min(5, Cardinality(accepted(outcomes)))
    /\ Cardinality(accepted(outcomes)) <= 5
        => \A i \in accepted(outcomes) :
                \E k \in 1..Len(returned) : returned[k] = outcomes[i].chapter

\* C8: _analyze_segments never raises to its caller: a line or match that
\* cannot be converted is skipped, a result is returned, and the lines that
\* can be converted are still returned.
C8_NeverRaises ==
    /\ called # "none" => raised = FALSE
    /\ called \in ANALYSES
        => converted_lines_returned(outcomes_of_description, chapters_returned)

\* a description whose first line cannot be converted: the call returned, with
\* the chapter of the second line
C8_Witness ==
    /\ called = "v1._analyze_segments"
    /\ description = <<"(","1",":","2","3",")"," ","c","a","t","\n","0",":","0",":","7"," ","d","o","g">>
    /\ duration = 600
    /\ raised = FALSE
    /\ Len(hooks) = 2
    /\ \E k \in 1..2 : hooks[k].start_time = 7

(***************************************************************************)
(* C9                                                                      *)
(***************************************************************************)
\* the scores of a chapter for an empty query: (0.5 * 0.6) + (0 * 0.2), and + 0.2
NEUTRAL_SCORES == {<<0,299999999,999999988>>, <<0,500000000,0>>}

neutral_line(i) ==
    /\ title_score(title_of_line(i), terms_of_query) = FHalf
    /\ context_score(context_of(lines_of_description, lines_of_description[i]),
                     terms_of_query) = FZero

\* C9: with an empty query keyword set nothing divides by zero: every
\* accepted description chapter gets title_score = 0.5 and
\* context_score = 0, and _analyze_captions returns an empty list.
C9_EmptyQueryIsNeutral ==
    query_keywords = <<>>
        => /\ called \in FLAT_ANALYSES
                => /\ raised = FALSE
                   /\ \A i \in accepted(outcomes_of_description) : neutral_line(i)
                   /\ \A k \in 1..Len(chapters_returned) :
                        chapters_returned[k].relevance_score \in NEUTRAL_SCORES
           /\ called = "v2._analyze_captions" => hooks = <<>>

\* an empty query, and a chapter was accepted and scored
C9_Witness ==
    /\ called = "v1._analyze_segments"
    /\ query_keywords = <<>>
    /\ accepted(outcomes_of_description) # {}
    /\ Len(hooks) >= 2

(***************************************************************************)
(* C10                                                                     *)
(***************************************************************************)
in_unit_interval(x) == FLeq(FZero, x) /\ FLeq(x, FOne)

\* C10: for every query keyword set and every accepted chapter line,
\* title_score and context_score lie in [0, 1].
C10_ScoresInUnitInterval ==
    called \in FLAT_ANALYSES
        => \A i \in accepted(outcomes_of_description) :
            /\ in_unit_interval(title_score(title_of_line(i), terms_of_query))
            /\ in_unit_interval(
                    context_score(context_of(lines_of_description, lines_of_description[i]),
                                  terms_of_query))

\* a query of two different words, both found in the title and in the context
\* of an accepted line
C10_Witness ==
    /\ called = "v1._analyze_segments"
    /\ query_keywords = <<<<"c","a","t">>, <<"c","a","t">>, <<"d","o","g">>>>
    /\ \E i \in accepted(outcomes_of_description) :
        /\ title_score(title_of_line(i), terms_of_query) = FOne
        /\ context_score(context_of(lines_of_description, lines_of_description[i]),
                         terms_of_query) = FOne

(***************************************************************************)
(* C11                                                                     *)
(***************************************************************************)
comments_failed == ~comments.ok
heatmap_failed == heatmap.status # "ok"

\* what _analyze_segments of main_app-v3.py returns for the description, the
\* duration and the query of this state with the given comments and page
buckets_with(comment_answer, page) ==
    analyze_segments_v3(description, query_keywords, duration, comment_answer, page).value

\* main_app-v3.py: the failed source gives an empty bucket, and each bucket is
\* what the call returns for it when the other sources give nothing
v3_failure_stays_in_its_bucket ==
    (called = "v3._analyze_segments" /\ (comments_failed \/ heatmap_failed))
        => /\ ~raised
           /\ comments_failed => buckets.comments = <<>>
           /\ heatmap_failed => buckets.most_replayed = <<>>
           /\ buckets.description = buckets_with(NO_COMMENTS, NO_HEATMAP).description
           /\ buckets.comments = buckets_with(comments, NO_HEATMAP).comments
           /\ buckets.most_replayed = buckets_with(NO_COMMENTS, heatmap).most_replayed

\* main-app-v2.py: with the transcript unavailable the hooks are those of the
\* call with use_captions = False
v2_no_transcript_as_without_captions ==
    (called = "v2._analyze_segments" /\ use_captions /\ ~transcript.ok)
        => /\ ~raised
           /\ hooks = analyze_segments_v2(description, query_keywords, duration,
                                          transcript, FALSE).value

\* C11: a failing comment request or a failing or absent heatmap leaves an
\* empty 'comments' or 'most_replayed' bucket in main_app-v3.py and the other
\* buckets as they are without the failure; in main-app-v2.py an unavailable
\* transcript gives the hooks of use_captions = False.
C11_FailureStaysInItsSource ==
    /\ v3_failure_stays_in_its_bucket
    /\ v2_no_transcript_as_without_captions

\* the comment request failed while the description has a chapter and the
\* page has a heatmap
C11_Witness ==
    /\ called = "v3._analyze_segments"
    /\ comments_failed
    /\ buckets.comments = <<>>
    /\ buckets.description # <<>>
    /\ buckets.most_replayed # <<>>

(***************************************************************************)
(* C12                                                                     *)
(***************************************************************************)
\* C12: _analyze_segments of main-app.py and main-app-v2.py returns at most
\* 10 segments, whatever the number of chapter lines and caption entries.
C12_AtMostTenSegments ==
    called \in FLAT_ANALYSES => Len(hooks) <= 10

\* more than five chapter lines and more than three matching captions: the
\* intro, three transcript segments and five chapters are returned
C12_Witness ==
    /\ called = "v2._analyze_segments"
    /\ use_captions
    /\ Cardinality(accepted(outcomes_of_description)) > 5
    /\ Len(caption_matches(get_captions(transcript), query_keywords)) > 3
    /\ Len(hooks) = 9

(***************************************************************************)
(* C13: the conversion of a formatted offset.  An offset s is written as   *)
(* H:MM:SS (hours without padding, minutes and seconds on two digits; the  *)
(* form str(timedelta(seconds=s)) has below one day) and the text is       *)
(* converted by the two lines of the timestamp conversion.  In this        *)
(* specification duration holds s and description holds the text.          *)
(***************************************************************************)
two_digits(n) == <<DIGITS[(n \div 10) + 1], DIGITS[(n % 10) + 1]>>

\* s as H:MM:SS
format_hms(s) ==
    py_str(s \div 3600) \o <<":">> \o two_digits((s \div 60) % 60) \o <<":">> \o two_digits(s % 60)

\* the hours of the offsets that are formatted; every minute and second of them
OFFSET_HOURS == {0, 1, 9, 10, 23, 24, 99}

OFFSETS == {h * 3600 + m * 60 + s : h \in OFFSET_HOURS, m \in 0..59, s \in 0..59}

InitRoundTrip ==
    /\ BatchIdle
    /\ duration \in OFFSETS
    /\ description = format_hms(duration)
    /\ query_keywords = <<>>
    /\ transcript = NO_TRANSCRIPT
    /\ comments = NO_COMMENTS
    /\ heatmap = NO_HEATMAP
    /\ called = "none"
    /\ use_captions = FALSE
    /\ hooks = <<>>
    /\ buckets = NO_BUCKETS
    /\ raised = FALSE

\* time_parts = time_str.split(':'); seconds = sum(...) on the text
ConvertTimestamp ==
    /\ called = "none"
    /\ LET seconds == timestamp_seconds(description)
       IN  /\ hooks' = IF seconds.ok THEN <<[start_time |-> seconds.val]>> ELSE <<>>
           /\ raised' = ~seconds.ok
    /\ called' = "timestamp_seconds"
    /\ UNCHANGED <<inputs, batch, use_captions, buckets>>

NextRoundTrip == ConvertTimestamp

SpecRoundTrip == InitRoundTrip /\ [][NextRoundTrip]_vars

\* C13: for 0 <= s < 360000, converting the text of s formatted as H:MM:SS
\* raises nothing and gives exactly s.
C13_ParseInvertsFormat ==
    called = "timestamp_seconds"
        => /\ ~raised
           /\ hooks = <<[start_time |-> duration]>>

\* the largest offset of the range, 99:59:59, converted
C13_Witness ==
    /\ called = "timestamp_seconds"
    /\ duration = 359999
    /\ description = <<"9","9",":","5","9",":","5","9">>
    /\ hooks = <<[start_time |-> 359999]>>

(***************************************************************************)
(* C14                                                                     *)
(***************************************************************************)
has_entry_at(seconds) == \E k \in 1..Len(hooks) : hooks[k].start_time = seconds

\* C14: the tokens "83s" and "2m10s" of a comment are converted to 83 and 130
\* seconds and _get_engagement_metrics returns an entry for each offset.
C14_CompoundTokensTallied ==
    (/\ called = "v3._get_engagement_metrics"
     /\ comments.ok
     /\ \E i \in 1..Len(comments.items) : comments.items[i] = <<"A","t"," ","8","3","s"," ","a","n","d"," ","2","m","1","0","s">>)
        => has_entry_at(83) /\ has_entry_at(130)

(***************************************************************************)
(* C15                                                                     *)
(***************************************************************************)
BARE_TOKEN == <<"1",":","2","3">>
PUNCTUATED_TOKENS == {<<"(","1",":","2","3",")">>, <<"1",":","2","3",",">>, <<"1",":","2","3","-">>}

first_token(line) == split_once(line, " ")[1]

\* C15: a description line that starts with "(1:23)", "1:23," or "1:23-" is
\* accepted as a chapter at the offset of the bare token "1:23" when that
\* offset is below the duration.
C15_PunctuationTolerated ==
    called \in ANALYSES
        => \A i \in 1..Len(lines_of_description) :
            (/\ first_token(lines_of_description[i]) \in PUNCTUATED_TOKENS
             /\ timestamp_seconds(BARE_TOKEN).val < duration)
                => \E k \in 1..Len(chapters_returned) :
                    chapters_returned[k].start_time = timestamp_seconds(BARE_TOKEN).val

(***************************************************************************)
(* C16                                                                     *)
(***************************************************************************)
has_intensity(entry) == "intensity" \in DOMAIN entry

well_shaped(entry) ==
    /\ {"start", "end"} \subseteq DOMAIN entry
    /\ has_intensity(entry)
    /\ entry.start < entry.end

well_shaped_entries == SelectSeq(heatmap.data, well_shaped)

\* C16: _get_most_replayed_segments returns the entries of the heatmap that
\* have an intensity and start < end, unchanged and in order, and no others.
C16_InvalidEntriesDropped ==
    (called = "v3._get_most_replayed_segments" /\ heatmap.status = "ok")
        => /\ Len(hooks) = Len(well_shaped_entries)
           /\ \A k \in 1..Len(well_shaped_entries) :
                hooks[k] = [start_time |-> well_shaped_entries[k].start,
                            end_time |-> well_shaped_entries[k].end,
                            intensity |-> well_shaped_entries[k].intensity]

(***************************************************************************)
(* C17                                                                     *)
(***************************************************************************)
\* the indicator phrases the specification lists
INDICATORS_OF_SPECIFICATION == <<
    <<"h","i","g","h","l","i","g","h","t">>, <<"b","e","s","t">>, <<"t","o","p">>, <<"i","m","p","o","r","t","a","n","t">>, <<"k","e","y">>, <<"m","a","i","n">>,
    <<"c","r","u","c","i","a","l">>, <<"m","u","s","t"," ","s","e","e">>, <<"a","m","a","z","i","n","g">>, <<"a","w","e","s","o","m","e">>, <<"p","e","r","f","e","c","t">>,
    <<"f","a","v","o","r","i","t","e">>, <<"b","e","s","t"," ","p","a","r","t">>, <<"d","o","n","'","t"," ","m","i","s","s">>, <<"w","a","t","c","h"," ","t","h","i","s">>,
    <<"c","h","e","c","k"," ","o","u","t">>, <<"l","o","o","k"," ","a","t">> >>

engagement_hits(title_lower) ==
    Cardinality({j \in 1..Len(INDICATORS_OF_SPECIFICATION) :
                    is_substring(INDICATORS_OF_SPECIFICATION[j], title_lower)})

\* (engagement_hits / |indicator_list|) * 0.3
proportional_boost(title) ==
    fmul(fdiv(engagement_hits(lower(title)), Len(INDICATORS_OF_SPECIFICATION)), F0_3)

weighted_base_in(ls, i, terms) ==
    fadd(fmul(title_score(split_once(ls[i], " ")[2], terms), F0_6),
         fmul(context_score(context_of(ls, ls[i]), terms), F0_2))

\* title_score * 0.6 + context_score * 0.2 for line i
weighted_base(i) == weighted_base_in(lines_of_description, i, terms_of_query)

\* every returned chapter is the chapter of an accepted line and has the score
\* score_of gives for that line
chapters_scored_by(outcomes, score_of(_)) ==
    \A k \in 1..Len(chapters_returned) :
        \E i \in accepted(outcomes) :
            /\ outcomes[i].chapter = chapters_returned[k]
            /\ chapters_returned[k].relevance_score = score_of(i)

proportional_score(i) == fadd(weighted_base(i), proportional_boost(title_of_line(i)))

\* C17: in main_app-v3.py every chapter's relevance_score is
\* title_score * 0.6 + context_score * 0.2 + (engagement_hits / 17) * 0.3,
\* the hits counted over the 17 phrases of the specification.
C17_ProportionalFormulaV3 ==
    called = "v3._analyze_segments"
        => /\ Len(ENGAGEMENT_INDICATORS_V3) = Len(INDICATORS_OF_SPECIFICATION)
           /\ chapters_scored_by(outcomes_of_description, proportional_score)

(***************************************************************************)
(* C18                                                                     *)
(***************************************************************************)
\* at least one indicator is a substring of the lower-cased title of line i
indicator_in_title(i) ==
    \E j \in 1..Len(ENGAGEMENT_INDICATORS) :
        is_substring(ENGAGEMENT_INDICATORS[j], lower(title_of_line(i)))

\* title_score * 0.6 + context_score * 0.2, plus 0.2 with an indicator
flat_bonus_score(i) ==
    IF indicator_in_title(i) THEN fadd(weighted_base(i), F0_2) ELSE weighted_base(i)

\* the score is the base, plus exactly 0.2 with an indicator, and then
\* strictly more than the base
flat_bonus_holds(base, with_indicator, score) ==
    /\ score = (IF with_indicator THEN fadd(base, F0_2) ELSE base)
    /\ with_indicator => FLess(base, score)

\* every returned chapter is the chapter of an accepted line and has the
\* flat-bonus score of that line
chapters_flat_scored(outcomes, returned) ==
    \A k \in 1..Len(returned) :
        \E i \in accepted(outcomes) :
            /\ outcomes[i].chapter = returned[k]
            /\ flat_bonus_holds(weighted_base(i), indicator_in_title(i),
                                returned[k].relevance_score)

\* C18: in main-app.py and main-app-v2.py every chapter's relevance_score is
\* title_score * 0.6 + context_score * 0.2, plus exactly 0.2 when an indicator
\* is a substring of the lower-cased title and plus 0 otherwise; a chapter
\* with an indicator scores strictly more than title_score * 0.6 +
\* context_score * 0.2.
C18_FlatBonusFormula ==
    called \in FLAT_ANALYSES
        => chapters_flat_scored(outcomes_of_description, chapters_returned)

\* a chapter with an indicator in its title and one without are returned for
\* a query that is not empty
C18_Witness ==
    /\ called \in FLAT_ANALYSES
    /\ query_keywords # <<>>
    /\ Len(chapters_returned) = 2
    /\ \E i, j \in accepted(outcomes_of_description) :
        /\ indicator_in_title(i)
        /\ ~indicator_in_title(j)
        /\ flat_bonus_score(i) = fadd(weighted_base(i), F0_2)
        /\ \E k \in 1..2 : chapters_returned[k].relevance_score = flat_bonus_score(i)

(***************************************************************************)
(* C19                                                                     *)
(***************************************************************************)
indicators_of_revision ==
    IF called = "v3._analyze_segments" THEN ENGAGEMENT_INDICATORS_V3 ELSE ENGAGEMENT_INDICATORS

\* the title of line i matches every query keyword and holds an indicator
strong_match(i) ==
    /\ terms_of_query # {}
    /\ title_score(title_of_line(i), terms_of_query) = FOne
    /\ \E j \in 1..Len(indicators_of_revision) :
        is_substring(indicators_of_revision[j], lower(title_of_line(i)))

\* every returned chapter made of a line with a strong match has a score on
\* which holds(score) is true
strong_matches_score(outcomes, holds(_)) ==
    \A k \in 1..Len(chapters_returned) :
        \A i \in accepted(outcomes) :
            (outcomes[i].chapter = chapters_returned[k] /\ strong_match(i))
                => holds(chapters_returned[k].relevance_score)

above_one(x) == FLess(FOne, x)
exactly_one(x) == x = FOne

\* C19 as stated: in every revision a chapter whose title matches all query
\* keywords and contains an engagement indicator has a relevance_score
\* strictly greater than 1.0.
C19_StrongMatchAboveOneEverywhere ==
    called \in ANALYSES => strong_matches_score(outcomes_of_description, above_one)

\* C19 amended: in main_app-v3.py a chapter whose title matches all query
\* keywords and contains an engagement indicator has a relevance_score
\* strictly greater than 1.0; in main-app.py and main-app-v2.py such a chapter
\* scores exactly 1.0 and no chapter scores more than 1.0.
C19_AboveOneOnlyInV3 ==
    /\ called = "v3._analyze_segments"
        => strong_matches_score(outcomes_of_description, above_one)
    /\ called \in FLAT_ANALYSES
        => /\ strong_matches_score(outcomes_of_description, exactly_one)
           /\ \A k \in 1..Len(chapters_returned) :
                FLeq(chapters_returned[k].relevance_score, FOne)

\* main_app-v3.py returned a chapter with a strong match, scored above 1.0
C19_Witness ==
    /\ called = "v3._analyze_segments"
    /\ \E i \in accepted(outcomes_of_description) : strong_match(i)
    /\ \E k \in 1..Len(buckets.description) :
        FLess(FOne, buckets.description[k].relevance_score)

(***************************************************************************)
(* C20                                                                     *)
(***************************************************************************)
\* the number of indicators of the revision that occur in the title of line i
indicators_in_title(i) ==
    Cardinality({j \in 1..Len(indicators_of_revision) :
                    is_substring(indicators_of_revision[j], lower(title_of_line(i)))})

type_by_hits(n) ==
    IF n = 0 THEN "keyword_match"
    ELSE IF n <= 2 THEN "engagement"
    ELSE "high_engagement"

chapters_typed_by_hits(outcomes) ==
    \A k \in 1..Len(chapters_returned) :
        \E i \in accepted(outcomes) :
            /\ outcomes[i].chapter = chapters_returned[k]
            /\ chapters_returned[k].segment_type = type_by_hits(indicators_in_title(i))

\* C20: in every revision a chapter's segment_type is 'keyword_match' when no
\* indicator occurs in its title, 'engagement' when 1 or 2 occur and
\* 'high_engagement' when more than 2 occur.
C20_SegmentTypeByHits ==
    called \in ANALYSES => chapters_typed_by_hits(outcomes_of_description)

(***************************************************************************)
(* C21                                                                     *)
(***************************************************************************)
\* lines i-2 through i+3 of ls, clamped, joined with spaces and lower-cased
window_around(ls, i) ==
    lower(join(SubSeq(ls, Max(1, i - 2), Min(Len(ls), i + 3)), " "))

context_is_own_window(outcomes, ls, returned) ==
    \A i \in accepted(outcomes) :
        \A k \in 1..Len(returned) :
            returned[k] = outcomes[i].chapter
                => returned[k].context = window_around(ls, i)

\* C21: in main-app.py and main-app-v2.py the context of the chapter made of
\* line i is the lower-cased, space-joined lines i-2 through i+3 of the
\* description, clamped to its bounds, around the position of the line itself.
C21_ContextIsOwnWindow ==
    called \in FLAT_ANALYSES
        => context_is_own_window(outcomes_of_description, lines_of_description,
                                 chapters_returned)

(***************************************************************************)
(* C22                                                                     *)
(***************************************************************************)
\* 1.2 times the score of a transcript_match segment, the score of any other
ranking_key(h) ==
    IF h.segment_type = "transcript_match" THEN fmul(h.relevance_score, F1_2)
    ELSE h.relevance_score

non_increasing_ranking(returned) ==
    \A a, b \in 1..Len(returned) :
        a < b => ~FLess(ranking_key(returned[a]), ranking_key(returned[b]))

transcript_before_lower(returned) ==
    \A a, b \in 1..Len(returned) :
        (/\ returned[a].segment_type = "transcript_match"
         /\ returned[b].segment_type # "transcript_match"
         /\ FLess(returned[b].relevance_score, fmul(returned[a].relevance_score, F1_2)))
            => a < b

\* C22: in main-app-v2.py the returned hooks are in non-increasing order of
\* the key 1.2 * relevance_score for a transcript_match segment and
\* relevance_score for any other, so a transcript segment with score s
\* precedes every other segment with a score below 1.2 * s.
C22_TranscriptRankedByBoost ==
    called = "v2._analyze_segments"
        => /\ non_increasing_ranking(hooks)
           /\ transcript_before_lower(hooks)

\* a transcript segment with score 1.0 stands before the intro
C22_Witness ==
    /\ called = "v2._analyze_segments"
    /\ use_captions
    /\ Len(hooks) >= 2
    /\ hooks[1].segment_type = "transcript_match"
    /\ hooks[1].relevance_score = FOne
    /\ \E b \in 2..Len(hooks) : hooks[b].segment_type = "intro"

(***************************************************************************)
(* C23                                                                     *)
(***************************************************************************)
non_increasing_scores(returned) ==
    \A a, b \in 1..Len(returned) :
        a < b => ~FLess(returned[a].relevance_score, returned[b].relevance_score)

is_returned(c, returned) == \E k \in 1..Len(returned) : returned[k] = c

\* the kept chapters are chapters of accepted lines, as many as were accepted
\* up to five, and no chapter left out scores more than a kept one
top_five_kept(outcomes, returned) ==
    /\ Len(returned) = Min(5, Cardinality(accepted(outcomes)))
    /\ \A k \in 1..Len(returned) :
        \E i \in accepted(outcomes) : outcomes[i].chapter = returned[k]
    /\ \A i \in accepted(outcomes) :
        \/ is_returned(outcomes[i].chapter, returned)
        \/ \A k \in 1..Len(returned) :
            ~FLess(returned[k].relevance_score, outcomes[i].chapter.relevance_score)

\* C23: the description chapters of the result are at most 5, in
\* non-increasing relevance_score order, no chapter left out has a
\* relevance_score strictly greater than a kept one, and with 5 or fewer
\* accepted chapter lines all of them are kept.
C23_TopFiveChaptersKept ==
    (called \in ANALYSES /\ ~raised)
        => /\ Len(chapters_returned) <= 5
           /\ non_increasing_scores(chapters_returned)
           /\ top_five_kept(outcomes_of_description, chapters_returned)

\* six lines are accepted and the one left out scores less than a kept one
C23_Witness ==
    /\ called \in ANALYSES
    /\ Cardinality(accepted(outcomes_of_description)) = 6
    /\ Len(chapters_returned) = 5
    /\ \E i \in accepted(outcomes_of_description) :
        /\ ~is_returned(outcomes_of_description[i].chapter, chapters_returned)
        /\ FLess(outcomes_of_description[i].chapter.relevance_score,
                 chapters_returned[1].relevance_score)

(***************************************************************************)
(* C24                                                                     *)
(***************************************************************************)
\* the offsets counted in the comments of this state, with their counts
counted_offsets == count_comments(<<>>, comments.items)

highest_count(counts) ==
    CHOOSE c \in {counts[i].count : i \in 1..Len(counts)} :
        \A i \in 1..Len(counts) : counts[i].count <= c

\* every entry is a counted offset with its count and count / highest count
entries_of_counts(counts, entries) ==
    \A k \in 1..Len(entries) :
        /\ \E i \in 1..Len(counts) :
            /\ counts[i].key = entries[k].start_time
            /\ counts[i].count = entries[k].frequency
            /\ entries[k].relevance_score = fdiv(counts[i].count, highest_count(counts))
        /\ FLess(FZero, entries[k].relevance_score)
        /\ FLeq(entries[k].relevance_score, FOne)
        /\ \A j \in 1..Len(entries) :
            entries[j].start_time = entries[k].start_time => j = k

\* no offset left out was counted more often than a returned one
most_counted_first(counts, entries) ==
    \A i \in 1..Len(counts) :
        \/ \E k \in 1..Len(entries) : entries[k].start_time = counts[i].key
        \/ \A k \in 1..Len(entries) : entries[k].frequency >= counts[i].count

\* C24: _get_engagement_metrics returns at most 10 entries, one per counted
\* offset, none left out with a higher count than a returned one, each with
\* relevance_score = its count / the highest count, in (0, 1]; with no
\* timestamp counted it returns an empty list.
C24_TopTenByCount ==
    (called = "v3._get_engagement_metrics" /\ comments.ok)
        => /\ Len(hooks) = Min(10, Len(counted_offsets))
           /\ entries_of_counts(counted_offsets, hooks)
           /\ most_counted_first(counted_offsets, hooks)

\* eleven offsets were counted, one of them twice: ten are returned, with
\* scores 1.0 and 0.5
C24_Witness ==
    /\ called = "v3._get_engagement_metrics"
    /\ Len(counted_offsets) = 11
    /\ Len(hooks) = 10
    /\ hooks[1].relevance_score = FOne
    /\ hooks[2].relevance_score = FHalf

(***************************************************************************)
(* C25                                                                     *)
(***************************************************************************)
\* the number of query keywords that are substrings of the lower-cased text
keywords_in(text, keywords) ==
    Cardinality({j \in 1..Len(keywords) : is_substring(keywords[j], lower(text))})

matching_entries(entries, keywords) ==
    {i \in 1..Len(entries) : keywords_in(entries[i].text, keywords) >= 1}

\* h is the segment of the caption entry e
segment_of_entry(h, e, keywords) ==
    /\ h.segment_type = "transcript_match"
    /\ h.start_time = int_of_tenths(e.start)
    /\ h.title = <<"K","e","y","w","o","r","d"," ","m","e","n","t","i","o","n",":"," ">> \o head(lower(e.text), 50) \o <<".",".",".">>
    /\ h.relevance_score = fdiv(keywords_in(e.text, keywords), Len(keywords))

top_three_matches(entries, keywords, returned) ==
    /\ Len(returned) = Min(3, Cardinality(matching_entries(entries, keywords)))
    /\ \A k \in 1..Len(returned) :
        \E i \in matching_entries(entries, keywords) :
            segment_of_entry(returned[k], entries[i], keywords)
    /\ \A i \in matching_entries(entries, keywords) :
        \/ \E k \in 1..Len(returned) : segment_of_entry(returned[k], entries[i], keywords)
        \/ \A k \in 1..Len(returned) :
            ~FLess(returned[k].relevance_score,
                   fdiv(keywords_in(entries[i].text, keywords), Len(keywords)))

\* C25: _analyze_captions returns segments only of caption entries in whose
\* lower-cased text at least one query keyword is a substring, each with
\* relevance_score = matching keywords / query keywords; it returns all of
\* them up to 3, in non-increasing score order, and no matching entry left
\* out has a strictly higher score than a returned one.
C25_TopThreeCaptionMatches ==
    called = "v2._analyze_captions"
        => /\ non_increasing_scores(hooks)
           /\ top_three_matches(get_captions(transcript), query_keywords, hooks)

\* four entries match, three are returned, with scores 1.0 and 0.5
C25_Witness ==
    /\ called = "v2._analyze_captions"
    /\ Cardinality(matching_entries(get_captions(transcript), query_keywords)) = 4
    /\ Len(hooks) = 3
    /\ hooks[1].relevance_score = FOne
    /\ hooks[3].relevance_score = FHalf

(***************************************************************************)
(* C26                                                                     *)
(***************************************************************************)
\* the keywords without the repetitions of a word, first occurrences kept
RECURSIVE without_repetitions(_)
without_repetitions(keywords) ==
    IF keywords = <<>> THEN <<>>
    ELSE LET front == without_repetitions(SubSeq(keywords, 1, Len(keywords) - 1))
             last == keywords[Len(keywords)]
         IN  IF \E j \in 1..Len(front) : front[j] = last THEN front ELSE front \o <<last>>

\* what the call of this state returns for the given keywords
hooks_for(keywords) ==
    IF called = "v1._analyze_segments"
    THEN analyze_segments_v1(description, keywords, duration).value
    ELSE IF called = "v2._analyze_segments"
    THEN analyze_segments_v2(description, keywords, duration, transcript, use_captions).value
    ELSE analyze_captions(transcript, keywords)

\* C26: repeating a word of the query changes no relevance_score: the scores
\* _analyze_segments and _analyze_captions return are those they return for
\* the query without the repetition.
C26_RepeatedKeywordChangesNoScore ==
    called \in FLAT_ANALYSES \cup {"v2._analyze_captions"}
        => relevance_keys(hooks) = relevance_keys(hooks_for(without_repetitions(query_keywords)))

(***************************************************************************)
(* C28                                                                     *)
(***************************************************************************)
title_score_of_line(i) == title_score(title_of_line(i), terms_of_query)

context_score_of_line(i) ==
    context_score(context_of(lines_of_description, lines_of_description[i]), terms_of_query)

\* C28: in main-app.py and main-app-v2.py, for every accepted chapter line
\* and every non-empty keyword set, context_score >= title_score.
C28_ContextScoreAtLeastTitleScore ==
    (called \in FLAT_ANALYSES /\ terms_of_query # {})
        => \A i \in accepted(outcomes_of_description) :
            FLeq(title_score_of_line(i), context_score_of_line(i))

\* an accepted line whose title matches one keyword of two and whose context
\* holds both
C28_Witness ==
    /\ called \in FLAT_ANALYSES
    /\ \E i \in accepted(outcomes_of_description) :
        /\ title_score_of_line(i) = FHalf
        /\ context_score_of_line(i) = FOne

(***************************************************************************)
(* C29                                                                     *)
(***************************************************************************)
\* C29: _analyze_segments of main-app-v2.py with use_captions = False returns
\* the hook sequence _analyze_segments of main-app.py returns for the same
\* video record and keywords, and main-app.py returns that of main-app-v2.py.
C29_V2WithoutCaptionsIsV1 ==
    /\ (called = "v2._analyze_segments" /\ ~use_captions)
        => /\ hooks = analyze_segments_v1(description, query_keywords, duration).value
           /\ raised = analyze_segments_v1(description, query_keywords, duration).raised
    /\ called = "v1._analyze_segments"
        => hooks = analyze_segments_v2(description, query_keywords, duration,
                                       transcript, FALSE).value

\* main-app-v2.py ran without captions on a video whose transcript matches
\* the query, and returned the intro and a chapter
C29_Witness ==
    /\ called = "v2._analyze_segments"
    /\ ~use_captions
    /\ analyze_captions(transcript, query_keywords) # <<>>
    /\ Len(hooks) >= 2
    /\ chapters_returned # <<>>

(***************************************************************************)
(* analyze_videos, the same text in the three revisions but for the        *)
(* use_captions argument of main-app-v2.py: the search call, the details   *)
(* call, the loop over videos_response['items'] with its own handler, all  *)
(* inside one try block whose handler returns [].                          *)
(*                                                                         *)
(* An item of videos_response is the record                                *)
(*   [id, readable, description, duration, transcript, comments, heatmap]: *)
(* readable is FALSE when one of the statements that read the item's       *)
(* fields raises (a missing key, a duration or a date that does not        *)
(* parse); transcript, comments and heatmap are what the services answer   *)
(* for the id of the item.                                                 *)
(***************************************************************************)
MaxVideos == 2

VIDEO_A ==
    [id |-> "a", readable |-> TRUE,
     description |-> <<"0",":","0","1",":","2","3"," ","c","a","t"," ","d","o","g">>, duration |-> 600,
     transcript |-> [ok |-> TRUE, entries |-> <<[text |-> <<"a"," ","c","a","t">>, start |-> 1250]>>],
     comments |-> [ok |-> TRUE, items |-> <<<<"0",":","0",":","7"," ","l","o","l">>>>],
     heatmap |-> [status |-> "ok", data |-> <<[start |-> 0, end |-> 10, intensity |-> 5]>>]]

VIDEO_B ==
    [id |-> "b", readable |-> TRUE,
     description |-> <<"0",":","0",":","9"," ","K","e","y"," ","c","a","t","\n","0",":","0",":","7"," ","d","o","g">>, duration |-> 600,
     transcript |-> NO_TRANSCRIPT,
     comments |-> [ok |-> FALSE, items |-> <<>>],
     heatmap |-> NO_HEATMAP]

\* an item whose fields cannot be read
VIDEO_X ==
    [id |-> "x", readable |-> FALSE,
     description |-> <<>>, duration |-> 0,
     transcript |-> NO_TRANSCRIPT, comments |-> NO_COMMENTS, heatmap |-> NO_HEATMAP]

VIDEO_POOL == {VIDEO_A, VIDEO_B, VIDEO_X}

VIDEO_LISTS == lists_up_to(VIDEO_POOL, MaxVideos) \ {<<>>}

QUERIES == {<<"c","a","t"," ","d","o","g">>, <<"A"," ","C","a","t"," ","i","s"," ","c","a","t">>}

ids_of(items) ==
    IF items = <<>> THEN <<>> ELSE [i \in 1..Len(items) |-> items[i].id] \o <<>>

\* the answers of the two calls: the search fails, finds nothing, or finds
\* videos whose details are then refused or given
InitResponses ==
    \/ /\ search_response \in {[status |-> "fails", items |-> <<>>],
                               [status |-> "ok", items |-> <<>>]}
       /\ videos_response = NO_VIDEOS
    \/ \E items \in VIDEO_LISTS :
        /\ search_response = [status |-> "ok", items |-> ids_of(items)]
        /\ videos_response \in {NO_VIDEOS, [ok |-> TRUE, items |-> items]}

InitBatch ==
    /\ \/ revision \in {"v1", "v3"} /\ use_captions = FALSE
       \/ revision = "v2" /\ use_captions \in BOOLEAN
    /\ query \in QUERIES
    /\ InitResponses
    /\ pc = "search"
    /\ position = 0
    /\ analyzed_videos = <<>>
    /\ result = <<>>
    /\ description = <<>>
    /\ duration = 0
    /\ query_keywords = <<>>
    /\ transcript = NO_TRANSCRIPT
    /\ comments = NO_COMMENTS
    /\ heatmap = NO_HEATMAP
    /\ called = "none"
    /\ hooks = <<>>
    /\ buckets = NO_BUCKETS
    /\ raised = FALSE

long_enough(word) == Len(word) > 2

\* [word.strip() for word in query.lower().split() if len(word.strip()) > 2]
keywords_of_query(text) == SelectSeq(split_ws(lower(text)), long_enough)

\* self._analyze_segments(video_data, query_keywords[, use_captions]): [raised, value]
hooks_of_video(file, video, keywords, captions_on) ==
    IF file = "v1"
    THEN analyze_segments_v1(video.description, keywords, video.duration)
    ELSE IF file = "v2"
    THEN analyze_segments_v2(video.description, keywords, video.duration,
                             video.transcript, captions_on)
    ELSE analyze_segments_v3(video.description, keywords, video.duration,
                             video.comments, video.heatmap)

\* video_data with video_data['hooks'] set, or the exception of _analyze_segments
with_hooks(video, analysis) ==
    IF analysis.raised THEN Raise
    ELSE [kind |-> "append",
          video_data |-> [video_id |-> video.id,
                          description |-> video.description,
                          duration |-> video.duration,
                          hooks |-> analysis.value]]

\* the body of the try block of the loop for one item
video_body(file, video, keywords, captions_on) ==
    IF ~video.readable THEN Raise
    ELSE with_hooks(video, hooks_of_video(file, video, keywords, captions_on))

\* variant of except_warning_continue without the handler
no_video_handler(outcome) == outcome

\* except Exception as e: st.warning(...); continue
except_warning_continue(outcome) == IF outcome.kind = "raise" THEN Continue ELSE outcome

\* variant of analyzed_after in which the videos share one hooks object: the
\* hooks written for a video are those every video appended before holds
analyzed_after_shared(videos, outcome) ==
    IF outcome.kind = "append"
    THEN [i \in 1..Len(videos) |-> [videos[i] EXCEPT !.hooks = outcome.video_data.hooks]]
         \o <<outcome.video_data>>
    ELSE videos

\* analyzed_videos.append(video_data), when the body reached it
analyzed_after(videos, outcome) ==
    IF outcome.kind = "append" THEN Append(videos, outcome.video_data) ELSE videos

\* the outer handler: st.error(...); return []
ReturnEmpty ==
    /\ result' = <<>>
    /\ pc' = "done"

\* search_response = self.youtube.search().list(**search_params).execute()
\* if not search_response.get('items'): return []
ExecuteSearch ==
    /\ pc = "search"
    /\ IF search_response.status = "fails" \/ search_response.items = <<>>
       THEN ReturnEmpty
       ELSE pc' = "details" /\ result' = result
    /\ UNCHANGED <<inputs, called, use_captions, hooks, buckets, raised, revision, query,
                   search_response, videos_response, position, analyzed_videos>>

\* videos_response = self.youtube.videos().list(...).execute()
\* analyzed_videos = []; query_keywords = [...]
GetVideoDetails ==
    /\ pc = "details"
    /\ IF ~videos_response.ok
       THEN ReturnEmpty /\ UNCHANGED <<query_keywords, position>>
       ELSE /\ query_keywords' = keywords_of_query(query)
            /\ position' = 1
            /\ pc' = "loop"
            /\ result' = result
    /\ UNCHANGED <<description, duration, transcript, comments, heatmap, called, use_captions,
                   hooks, buckets, raised, revision, query, search_response, videos_response,
                   analyzed_videos>>

\* the loop goes on to the next item, or an exception leaves it for the outer handler
after_video(outcome) ==
    IF outcome.kind = "raise"
    THEN ReturnEmpty /\ UNCHANGED <<position, analyzed_videos>>
    ELSE /\ analyzed_videos' = analyzed_after(analyzed_videos, outcome)
         /\ position' = position + 1
         /\ UNCHANGED <<pc, result>>

\* one iteration of `for video in videos_response['items']`
ProcessVideo ==
    /\ pc = "loop"
    /\ position <= Len(videos_response.items)
    /\ after_video(except_warning_continue(
            video_body(revision, videos_response.items[position], query_keywords,
                       use_captions)))
    /\ UNCHANGED <<inputs, called, use_captions, hooks, buckets, raised, revision, query,
                   search_response, videos_response>>

\* return analyzed_videos
ReturnAnalyzed ==
    /\ pc = "loop"
    /\ position > Len(videos_response.items)
    /\ result' = analyzed_videos
    /\ pc' = "done"
    /\ UNCHANGED <<inputs, called, use_captions, hooks, buckets, raised, revision, query,
                   search_response, videos_response, position, analyzed_videos>>

NextBatch ==
    \/ ExecuteSearch
    \/ GetVideoDetails
    \/ ProcessVideo
    \/ ReturnAnalyzed

SpecBatch == InitBatch /\ [][NextBatch]_vars

(***************************************************************************)
(* C27                                                                     *)
(***************************************************************************)
\* the item of the details answer that video_data was made from
item_of(video_data) ==
    CHOOSE video \in VIDEO_POOL : video.id = video_data.video_id

\* the hooks of an item analysed on its own: a function of the item, of what
\* the services answer for it, and of the keywords of the query
hooks_alone(video) ==
    hooks_of_video(revision, video, keywords_of_query(query), use_captions).value

own_hooks(videos) ==
    \A k \in 1..Len(videos) : videos[k].hooks = hooks_alone(item_of(videos[k]))

processed(video) ==
    /\ video.readable
    /\ ~hooks_of_video(revision, video, keywords_of_query(query), use_captions).raised

has_hooks(video_data) == "hooks" \in DOMAIN video_data

video_ids(videos) ==
    IF videos = <<>> THEN <<>>
    ELSE [k \in 1..Len(videos) |-> videos[k].video_id] \o <<>>

all_with_hooks(videos) == \A k \in 1..Len(videos) : has_hooks(videos[k])

calls_answered ==
    /\ search_response.status = "ok"
    /\ search_response.items # <<>>
    /\ videos_response.ok

\* C30: a finished call of analyze_videos has raised nothing; it returned []
\* when the search or the details call failed or the search found nothing,
\* and otherwise the provider's videos that were processed, in the provider's
\* order, each with a hooks field.
C30_NeverRaisesOmitsFailedVideos ==
    pc = "done" =>
        /\ ~raised
        /\ ~calls_answered => result = <<>>
        /\ calls_answered =>
            /\ video_ids(result) = ids_of(SelectSeq(videos_response.items, processed))
            /\ all_with_hooks(result)

\* a video that could not be processed was followed by one that was
C30_Witness ==
    /\ pc = "done"
    /\ videos_response.ok
    /\ Len(videos_response.items) = 2
    /\ ~videos_response.items[1].readable
    /\ Len(result) = 1
    /\ result[1].video_id = videos_response.items[2].id

====
